---- MODULE Spec2Model ----
(***************************************************************************)
(* Verification model of the td_pv forecast service.                       *)
(*                                                                         *)
(* Part 1: HistoryJobService (src/jobs/history_service.py) together with   *)
(* the two HTTP handlers that drive it (src/app.py, generate_history_job   *)
(* and get_job_status).  Every handler runs on a thread of the server's    *)
(* thread pool; the background task that generate_history_job schedules    *)
(* runs on the same thread after the response was produced.                *)
(***************************************************************************)
EXTENDS Integers, Sequences, FiniteSets, TLC

\* ------------------------------------------------------------------ bounds
NumThreads == 2
MaxRequests == 3
MaxDays == 1
MaxPipelineCalls == 2
MaxDaysBack == 2
MaxTopics == 2
MaxDate == 2
MaxRecords == 2
MaxTs == 2
MaxBatch == 2
MaxValue == 2
MaxSpan == 2
MaxTick == 1
MaxRunDays == 1

Threads == 1..NumThreads

\* Python's None, in a slot that otherwise holds a number (an id, a time, a
\* day count), a string, or a dict.
None == 0
NoneStr == "None"
NoneDict == [none |-> TRUE]
IsNone(d) == "none" \in DOMAIN d

VARIABLES
    lock,            \* HistoryJobService._lock: the thread holding it, or None
    jobs,            \* HistoryJobService._jobs: job id -> job dict
    running_job_id,  \* HistoryJobService._running_job_id
    clock,           \* the value the next datetime.utcnow() returns
    reqs,            \* number of calls issued so far (bounds the run)
    pc,              \* per thread: position in the handler / method
    req_days,        \* generate_history_job: local `days`
    creation,        \* generate_history_job: local `creation` (job is a reference)
    job_id,          \* run_job / get_job: parameter job_id
    days,            \* run_job: local `days`
    updates,         \* _set_state: parameter **updates
    exc,             \* run_job: the exception in flight, or None
    got,             \* get_job_status: local `job` (the copy get_job returned)
    JOBS,            \* forecast_pipeline.JOBS: job id -> state dict
    cache,           \* the rows bulk_upsert_points has written
    ppc,             \* position of the start_history_job call
    pcalls,          \* number of start_history_job calls so far
    pjob,            \* start_history_job: locals job_id, accepted, write,
                     \*   idx, rows
    pstatus          \* what the last forecast_pipeline.get_job_status returned

svc == <<lock, jobs, running_job_id, clock>>
locals == <<req_days, creation, job_id, days, updates, exc, got>>
service == <<lock, jobs, running_job_id, clock, reqs, pc, req_days, creation,
             job_id, days, updates, exc, got>>
pipe == <<JOBS, cache, ppc, pcalls, pjob, pstatus>>

VARIABLES
    w_pc,            \* get_weather_for_date: position of the call
    w_args,          \* its arguments and what its two sources will answer
    w_primary,       \* local primary_source
    w_secondary,     \* local secondary_source
    w_records,       \* local records
    w_diag,          \* local diagnostics
    w_fetched,       \* the sources whose loader ran, in order
    w_result         \* what the call returned, or the exception it raised

weather == <<w_pc, w_args, w_primary, w_secondary, w_records, w_diag,
             w_fetched, w_result>>

\* What each part of the system leaves alone.
\* The estimator: _build_rows_for_topic and the loop of compute_forecast.
VARIABLES
    e_pc,       \* "idle", "loop", "done"
    e_in,       \* path, topic specification, whether a model was loaded
    e_left,     \* records not yet iterated
    e_locals,   \* the locals of the last iteration
    e_rows,     \* rows built for the cache: <<topic, dt, power>>
    e_points,   \* points for the caller: [x, y]
    e_raised    \* the exception that ended the call

estimator == <<e_pc, e_in, e_left, e_locals, e_rows, e_points, e_raised>>

\* The table pv_forecast_points and a call of forecast_db in progress.
VARIABLES
    table,      \* the rows of pv_forecast_points
    d_pc,       \* "idle", "upsert", "select", "selected"
    d_args,     \* the arguments of the call
    d_result    \* what select_points returned

db == <<table, d_pc, d_args, d_result>>

\* weather_api.interpolate_15min.
VARIABLES
    i_pc,       \* "idle", "called", "returned"
    i_values,   \* the hourly values passed
    i_next,     \* the value of the hour after the day's last, not passed
    i_times,    \* the grid returned
    i_out       \* the values returned, in quarters of the unit

interp == <<i_pc, i_values, i_next, i_times, i_out>>

\* forecast_db.ensure_month_partitions and the paths that write rows.
VARIABLES
    partitions, \* the partitions of pv_forecast_points
    p_pc,       \* "idle", "loop", "done", "write", "p_return"
    p_path,     \* the caller
    p_args,     \* start_ts, end_ts of the call, or None
    p_cursor,   \* the loop's cursor
    p_rows,     \* timestamps of the first and the last row built
    p_result    \* "written" or "raised" after the write

part == <<partitions, p_pc, p_path, p_args, p_cursor, p_rows, p_result>>

\* jobs.generate_forecasts: run_future and run_history, and the reads of
\* tag_specification.
VARIABLES
    r_pc,       \* "idle", "delete", "topics", "topic", "day", "flush",
                \* "final", "ended"
    r_run,      \* "run_future" or "run_history"
    r_now,      \* now, the cutoff of run_future
    r_store,    \* the tags of tag_specification during the run
    r_topics,   \* the topics still to do, the first being the current one
    r_day,      \* day_offset
    r_buf,      \* rows: the rows lo+1..hi of those the run has built
    r_passed,   \* the arguments of the calls of bulk_upsert_points
    r_stored,   \* how many rows of the run the cache has taken
    r_deleted,  \* how many rows delete_future removed
    r_error,    \* the exception that ended the run, or None
    r_read      \* the last read of tag_specification and what it gave

runs == <<r_pc, r_run, r_now, r_store, r_topics, r_day, r_buf, r_passed,
          r_stored, r_deleted, r_error, r_read>>

not_service == <<pipe, weather, estimator, db, interp, part, runs>>
not_pipe == <<service, weather, estimator, db, interp, part, runs>>
not_weather == <<service, pipe, estimator, db, interp, part, runs>>
not_estimator == <<service, pipe, weather, db, interp, part, runs>>
not_db == <<service, pipe, weather, estimator, interp, part, runs>>
not_interp == <<service, pipe, weather, estimator, db, part, runs>>
not_part == <<service, pipe, weather, estimator, db, interp, runs>>
\* What a run leaves alone: all but its own state and the table.
not_runs == <<service, pipe, weather, estimator, interp, part, d_pc, d_args, d_result>>
vars == <<service, pipe, weather, estimator, db, interp, part, runs>>

\* ------------------------------------------------------------ job records
QUEUED == "queued"
RUNNING == "running"
COMPLETED == "completed"
FAILED == "failed"
JobStates == {QUEUED, RUNNING, COMPLETED, FAILED}

\* create_job, lines 26-34: the dict of a new job.
NewJob(id, d, now) ==
    [id |-> id, state |-> QUEUED, days |-> d, created_at |-> now,
     started_at |-> None, finished_at |-> None, error |-> NoneStr]

\* dict.update(updates): the keys of `upd` overwrite, the others stay.
DictUpdate(job, upd) ==
    [k \in DOMAIN job |-> IF k \in DOMAIN upd THEN upd[k] ELSE job[k]]

\* uuid4(): an id no job has yet.
FreshId == Cardinality(DOMAIN jobs) + 1

\* ------------------------------------------------- run_history, as called
\* The parameter names of jobs.generate_forecasts.run_history: it has none.
RunHistoryParams == {}

TypeErrorMsg == "run_history() got an unexpected keyword argument 'days'"
UpstreamErrorMsg == "upstream or storage error"

\* The outcome of the call run_history(**kwargs) when the backfill meets the
\* environment `env`: None when it returns, else str(exc).  Python binds the
\* arguments before the body runs; an unknown keyword raises TypeError.
RunHistoryCall(kwargs, env) ==
    IF ~(kwargs \subseteq RunHistoryParams) THEN TypeErrorMsg
    ELSE IF env = "error" THEN UpstreamErrorMsg
    ELSE NoneStr

\* ------------------------------------------------------------------- Init
Init ==
    /\ lock = None
    /\ jobs = << >>
    /\ running_job_id = None
    /\ clock = 1
    /\ reqs = 0
    /\ pc = [t \in Threads |-> "idle"]
    /\ req_days = [t \in Threads |-> None]
    /\ creation = [t \in Threads |-> NoneDict]
    /\ job_id = [t \in Threads |-> None]
    /\ days = [t \in Threads |-> None]
    /\ updates = [t \in Threads |-> NoneDict]
    /\ exc = [t \in Threads |-> NoneStr]
    /\ got = [t \in Threads |-> NoneDict]
    /\ JOBS = << >>
    /\ cache = {}
    /\ ppc = "idle"
    /\ pcalls = 0
    /\ pjob = NoneDict
    /\ pstatus = NoneDict
    /\ w_pc = "idle"
    /\ w_args = NoneDict
    /\ w_primary = NoneStr
    /\ w_secondary = NoneStr
    /\ w_records = [kind |-> "list", records |-> << >>]
    /\ w_diag = << >>
    /\ w_fetched = << >>
    /\ w_result = NoneDict
    /\ e_pc = "idle"
    /\ e_in = NoneDict
    /\ e_left = 0
    /\ e_locals = NoneDict
    /\ e_rows = << >>
    /\ e_points = << >>
    /\ e_raised = NoneStr
    /\ table = {}
    /\ d_pc = "idle"
    /\ d_args = NoneDict
    /\ d_result = NoneDict
    /\ i_pc = "idle"
    /\ i_values = << >>
    /\ i_next = None
    /\ i_times = << >>
    /\ i_out = << >>
    /\ partitions = {}
    /\ p_pc = "idle"
    /\ p_path = NoneStr
    /\ p_args = NoneDict
    /\ p_cursor = NoneDict
    /\ p_rows = << >>
    /\ p_result = NoneStr
    /\ r_pc = "idle"
    /\ r_run = NoneStr
    /\ r_now = None
    /\ r_store = << >>
    /\ r_topics = << >>
    /\ r_day = 0
    /\ r_buf = [lo |-> 0, hi |-> 0]
    /\ r_passed = << >>
    /\ r_stored = 0
    /\ r_deleted = 0
    /\ r_error = NoneStr
    /\ r_read = [path |-> NoneStr, failed |-> FALSE, value |-> NoneDict]

\* `with self._lock:` entry and exit (threading.Lock, not re-entrant).
Acquire(t, at, next) ==
    /\ pc[t] = at
    /\ lock = None
    /\ lock' = t
    /\ pc' = [pc EXCEPT ![t] = next]

Release(t, at, next) ==
    /\ pc[t] = at
    /\ lock' = None
    /\ pc' = [pc EXCEPT ![t] = next]

\* ------------------------------------------- app.py: generate_history_job
\* Lines 226-234: validate days, then call create_job(days).
GenerateHistoryJob(t) ==
    /\ pc[t] = "idle"
    /\ reqs < MaxRequests
    /\ reqs' = reqs + 1
    /\ \E d \in 0..MaxDays :
          IF d < 1
          THEN UNCHANGED <<pc, req_days>>      \* HTTP 400, nothing called
          ELSE /\ req_days' = [req_days EXCEPT ![t] = d]
               /\ pc' = [pc EXCEPT ![t] = "cj_lock"]
    /\ UNCHANGED <<svc, creation, job_id, days, updates, exc, got>>
    /\ UNCHANGED not_service

\* history_service.py line 17.
CreateJobAcquire(t) ==
    /\ Acquire(t, "cj_lock", "cj_body")
    /\ UNCHANGED <<jobs, running_job_id, clock, reqs, locals>>
    /\ UNCHANGED not_service

\* create_job without the check of the active slot: always a new job.
CreateJobBodyNoCheck(t) ==
    /\ pc[t] = "cj_body"
    /\ jobs' = (FreshId :> NewJob(FreshId, req_days[t], clock)) @@ jobs
    /\ running_job_id' = FreshId
    /\ clock' = clock + 1
    /\ creation' = [creation EXCEPT ![t] = [started |-> TRUE, job |-> FreshId]]
    /\ pc' = [pc EXCEPT ![t] = "cj_unlock"]
    /\ UNCHANGED <<lock, reqs, req_days, job_id, days, updates, exc, got>>
    /\ UNCHANGED not_service

\* create_job reporting started = True also for the job already active.
CreateJobBodyAlwaysStarted(t) ==
    /\ pc[t] = "cj_body"
    /\ IF running_job_id # None
       THEN /\ creation' = [creation EXCEPT
                              ![t] = [started |-> TRUE, job |-> running_job_id]]
            /\ UNCHANGED <<jobs, running_job_id, clock>>
       ELSE /\ jobs' = (FreshId :> NewJob(FreshId, req_days[t], clock)) @@ jobs
            /\ running_job_id' = FreshId
            /\ clock' = clock + 1
            /\ creation' = [creation EXCEPT
                              ![t] = [started |-> TRUE, job |-> FreshId]]
    /\ pc' = [pc EXCEPT ![t] = "cj_unlock"]
    /\ UNCHANGED <<lock, reqs, req_days, job_id, days, updates, exc, got>>
    /\ UNCHANGED not_service

\* create_job that stores the new job without taking the active slot.
CreateJobBodyLeavesSlot(t) ==
    /\ pc[t] = "cj_body"
    /\ IF running_job_id # None
       THEN /\ creation' = [creation EXCEPT
                              ![t] = [started |-> FALSE, job |-> running_job_id]]
            /\ UNCHANGED <<jobs, clock>>
       ELSE /\ jobs' = (FreshId :> NewJob(FreshId, req_days[t], clock)) @@ jobs
            /\ clock' = clock + 1
            /\ creation' = [creation EXCEPT
                              ![t] = [started |-> TRUE, job |-> FreshId]]
    /\ pc' = [pc EXCEPT ![t] = "cj_unlock"]
    /\ UNCHANGED <<lock, running_job_id, reqs, req_days, job_id, days, updates,
                   exc, got>>
    /\ UNCHANGED not_service

\* history_service.py lines 18-40, inside the lock.
CreateJobBody(t) ==
    /\ pc[t] = "cj_body"
    /\ IF running_job_id # None
       THEN /\ creation' = [creation EXCEPT
                              ![t] = [started |-> FALSE, job |-> running_job_id]]
            /\ UNCHANGED <<jobs, running_job_id, clock>>
       ELSE /\ jobs' = (FreshId :> NewJob(FreshId, req_days[t], clock)) @@ jobs
            /\ running_job_id' = FreshId
            /\ clock' = clock + 1
            /\ creation' = [creation EXCEPT
                              ![t] = [started |-> TRUE, job |-> FreshId]]
    /\ pc' = [pc EXCEPT ![t] = "cj_unlock"]
    /\ UNCHANGED <<lock, reqs, req_days, job_id, days, updates, exc, got>>
    /\ UNCHANGED not_service

\* Leaving the `with` block of create_job.
CreateJobRelease(t) ==
    /\ Release(t, "cj_unlock", "gh_respond")
    /\ UNCHANGED <<jobs, running_job_id, clock, reqs, locals>>
    /\ UNCHANGED not_service

\* app.py line 240: the response body, built from the job dict that
\* create_job returned.  The dict is the one stored in the service.
GenerateHistoryResponse(t) ==
    [status |-> 202, started |-> creation[t].started,
     job |-> jobs[creation[t].job]]

\* app.py lines 235-240: job = creation["job"]; schedule run_job(job["id"])
\* as a background task when started; return the response.  The job dict
\* is read here without the lock.  The background task runs on this thread
\* once the response is out.
GenerateHistoryRespond(t) ==
    /\ pc[t] = "gh_respond"
    /\ IF creation[t].started
       THEN /\ job_id' = [job_id EXCEPT ![t] = jobs[creation[t].job].id]
            /\ pc' = [pc EXCEPT ![t] = "rj_start"]
            /\ UNCHANGED creation
       ELSE /\ pc' = [pc EXCEPT ![t] = "idle"]
            /\ creation' = [creation EXCEPT ![t] = NoneDict]
            /\ UNCHANGED job_id
    /\ req_days' = [req_days EXCEPT ![t] = None]
    /\ UNCHANGED <<svc, reqs, days, updates, exc, got>>
    /\ UNCHANGED not_service

\* ------------------------------------------- history_service.py: run_job
\* The call of line 43 without its started_at.
RunJobStartNoTimestamp(t) ==
    /\ pc[t] = "rj_start"
    /\ updates' = [updates EXCEPT ![t] = [state |-> RUNNING]]
    /\ clock' = clock + 1
    /\ pc' = [pc EXCEPT ![t] = "ss_lock"]
    /\ UNCHANGED <<lock, jobs, running_job_id, reqs, req_days, creation,
                   job_id, days, exc, got>>
    /\ UNCHANGED not_service

\* Line 43: the call _set_state(job_id, state="running", started_at=utcnow()).
RunJobStart(t) ==
    /\ pc[t] = "rj_start"
    /\ updates' = [updates EXCEPT
                     ![t] = [state |-> RUNNING, started_at |-> clock]]
    /\ clock' = clock + 1
    /\ pc' = [pc EXCEPT ![t] = "ss_lock"]
    /\ UNCHANGED <<lock, jobs, running_job_id, reqs, req_days, creation,
                   job_id, days, exc, got>>
    /\ UNCHANGED not_service

\* _set_state, line 65.
SetStateAcquire(t) ==
    /\ Acquire(t, "ss_lock", "ss_body")
    /\ UNCHANGED <<jobs, running_job_id, clock, reqs, locals>>
    /\ UNCHANGED not_service

\* _set_state, line 66: self._jobs[job_id].update(updates), whatever the
\* job's present state is.
SetStateBody(t) ==
    /\ pc[t] = "ss_body"
    /\ jobs' = [jobs EXCEPT ![job_id[t]] = DictUpdate(@, updates[t])]
    /\ pc' = [pc EXCEPT ![t] = "ss_unlock"]
    /\ UNCHANGED <<lock, running_job_id, clock, reqs, locals>>
    /\ UNCHANGED not_service

\* Where run_job goes on after a _set_state call returned: into the try
\* block after line 43, to the finally block after line 51, and to the
\* `raise` of line 49 (the exception stays in flight through finally)
\* after line 48.
AfterSetState(t) ==
    IF updates[t].state = RUNNING THEN "rj_try" ELSE "rf_lock"

\* _set_state returning with the lock still held.
SetStateReleaseKeepsLock(t) ==
    /\ pc[t] = "ss_unlock"
    /\ pc' = [pc EXCEPT ![t] = AfterSetState(t)]
    /\ updates' = [updates EXCEPT ![t] = NoneDict]
    /\ UNCHANGED <<svc, reqs, req_days, creation, job_id, days, exc, got>>
    /\ UNCHANGED not_service

\* Leaving the `with` block of _set_state and returning to run_job.
SetStateRelease(t) ==
    /\ Release(t, "ss_unlock", AfterSetState(t))
    /\ updates' = [updates EXCEPT ![t] = NoneDict]
    /\ UNCHANGED <<jobs, running_job_id, clock, reqs, req_days, creation,
                   job_id, days, exc, got>>
    /\ UNCHANGED not_service

\* Line 45: days = int(self._jobs[job_id]["days"]), read without the lock.
RunJobReadDays(t) ==
    /\ pc[t] = "rj_try"
    /\ days' = [days EXCEPT ![t] = jobs[job_id[t]].days]
    /\ pc' = [pc EXCEPT ![t] = "rj_call"]
    /\ UNCHANGED <<svc, reqs, req_days, creation, job_id, updates, exc, got>>
    /\ UNCHANGED not_service

\* Lines 46-51: run_history(days=days) runs outside the lock; when it
\* raises, the except clause calls _set_state(failed, error, finished_at),
\* otherwise the else clause calls _set_state(completed, finished_at).
RunJobCallRunHistory(t) ==
    /\ pc[t] = "rj_call"
    /\ \E env \in {"ok", "error"} :
         LET e == RunHistoryCall({"days"}, env) IN
         /\ exc' = [exc EXCEPT ![t] = e]
         /\ updates' = [updates EXCEPT ![t] =
                          IF e # NoneStr
                          THEN [state |-> FAILED, error |-> e,
                                finished_at |-> clock]
                          ELSE [state |-> COMPLETED, finished_at |-> clock]]
    /\ clock' = clock + 1
    /\ pc' = [pc EXCEPT ![t] = "ss_lock"]
    /\ UNCHANGED <<lock, jobs, running_job_id, reqs, req_days, creation,
                   job_id, days, got>>
    /\ UNCHANGED not_service

\* Line 53.
RunJobFinallyAcquire(t) ==
    /\ Acquire(t, "rf_lock", "rf_body")
    /\ UNCHANGED <<jobs, running_job_id, clock, reqs, locals>>
    /\ UNCHANGED not_service

\* A finally clause that leaves the active slot as it is.
RunJobFinallyBodyKeepsSlot(t) ==
    /\ pc[t] = "rf_body"
    /\ pc' = [pc EXCEPT ![t] = "rf_unlock"]
    /\ UNCHANGED <<svc, reqs, locals>>
    /\ UNCHANGED not_service

\* Lines 54-55.
RunJobFinallyBody(t) ==
    /\ pc[t] = "rf_body"
    /\ running_job_id' =
          IF running_job_id = job_id[t] THEN None ELSE running_job_id
    /\ pc' = [pc EXCEPT ![t] = "rf_unlock"]
    /\ UNCHANGED <<lock, jobs, clock, reqs, locals>>
    /\ UNCHANGED not_service

\* Leaving the `with` block of the finally clause.
RunJobFinallyRelease(t) ==
    /\ Release(t, "rf_unlock", "rj_return")
    /\ UNCHANGED <<jobs, running_job_id, clock, reqs, locals>>
    /\ UNCHANGED not_service

\* run_job ends: the exception re-raised by line 49, if any, is still in
\* flight and reaches the caller (the background-task runner of the server).
RunJobReturn(t) ==
    /\ pc[t] = "rj_return"
    /\ exc' = [exc EXCEPT ![t] = NoneStr]
    /\ job_id' = [job_id EXCEPT ![t] = None]
    /\ days' = [days EXCEPT ![t] = None]
    /\ creation' = [creation EXCEPT ![t] = NoneDict]
    /\ pc' = [pc EXCEPT ![t] = "idle"]
    /\ UNCHANGED <<svc, reqs, req_days, updates, got>>
    /\ UNCHANGED not_service

\* -------------------------------------------------- app.py: get_job_status
\* The ids a client may ask for: every job created so far, and one id no
\* job has (all unknown ids behave alike).
LookupIds == DOMAIN jobs \cup {FreshId}

\* Lines 244-245: GET /jobs/{job_id} for any id, created or not.
GetJobStatus(t) ==
    /\ pc[t] = "idle"
    /\ reqs < MaxRequests
    /\ reqs' = reqs + 1
    /\ \E id \in LookupIds : job_id' = [job_id EXCEPT ![t] = id]
    /\ pc' = [pc EXCEPT ![t] = "gj_lock"]
    /\ UNCHANGED <<svc, req_days, creation, days, updates, exc, got>>
    /\ UNCHANGED not_service

\* history_service.py line 58.
GetJobAcquire(t) ==
    /\ Acquire(t, "gj_lock", "gj_body")
    /\ UNCHANGED <<jobs, running_job_id, clock, reqs, locals>>
    /\ UNCHANGED not_service

\* Lines 59-62: None for an unknown id, else a copy of the job dict.
GetJobBody(t) ==
    /\ pc[t] = "gj_body"
    /\ got' = [got EXCEPT ![t] = IF job_id[t] \in DOMAIN jobs
                                 THEN jobs[job_id[t]] ELSE NoneDict]
    /\ pc' = [pc EXCEPT ![t] = "gj_unlock"]
    /\ UNCHANGED <<svc, reqs, req_days, creation, job_id, days, updates, exc>>
    /\ UNCHANGED not_service

\* Leaving the `with` block of get_job.
GetJobRelease(t) ==
    /\ Release(t, "gj_unlock", "gs_respond")
    /\ UNCHANGED <<jobs, running_job_id, clock, reqs, locals>>
    /\ UNCHANGED not_service

\* app.py lines 246-248: 404 when get_job returned None, else the job.
GetJobStatusResponse(t) ==
    IF IsNone(got[t]) THEN [status |-> 404]
    ELSE [status |-> 200, job |-> got[t]]

\* The handler returns GetJobStatusResponse(t).
GetJobStatusRespond(t) ==
    /\ pc[t] = "gs_respond"
    /\ job_id' = [job_id EXCEPT ![t] = None]
    /\ got' = [got EXCEPT ![t] = NoneDict]
    /\ pc' = [pc EXCEPT ![t] = "idle"]
    /\ UNCHANGED <<svc, reqs, req_days, creation, days, updates, exc>>
    /\ UNCHANGED not_service

\* A direct call of run_job for a job that exists, whatever its state:
\* the method is public and checks nothing.
RunJobAgain(t) ==
    /\ pc[t] = "idle"
    /\ reqs < MaxRequests
    /\ reqs' = reqs + 1
    /\ \E id \in DOMAIN jobs : job_id' = [job_id EXCEPT ![t] = id]
    /\ pc' = [pc EXCEPT ![t] = "rj_start"]
    /\ UNCHANGED <<svc, req_days, creation, days, updates, exc, got>>
    /\ UNCHANGED not_service

\* ============================================================ Part 2
\* forecast_pipeline.py: the JOBS registry, start_history_job and
\* get_job_status.  start_history_job is synchronous; the registry is a
\* module global, so a reader on another thread sees its job mid-run.

\* The topic-specification store as get_topic_spec sees it: topic "A" has
\* a specification with a user_object_id, "U" one without, "N" has none.
Topics == {"A", "U", "N"}
TopicHasSpec(topic) == topic # "N"
TopicHasUid(topic) == topic = "A"

\* The lists of topics a caller may pass: no repeats, up to MaxTopics long.
TopicLists ==
    {q \in UNION {[1..n -> Topics] : n \in 0..MaxTopics} :
        \A a \in DOMAIN q, b \in DOMAIN q : a # b => q[a] # q[b]}

Min(a, b) == IF a <= b THEN a ELSE b

\* topics[:n]
Prefix(q, n) == SubSeq(q, 1, Min(Len(q), n))

\* Lines 304-314: the accepted topics, in order.
RECURSIVE Accepted(_)
Accepted(q) ==
    IF q = << >> THEN << >>
    ELSE IF TopicHasSpec(Head(q)) /\ TopicHasUid(Head(q))
         THEN <<Head(q)>> \o Accepted(Tail(q))
         ELSE Accepted(Tail(q))

\* Lines 319-326: the state dict of a new job.
NewPipelineJob(id, total) ==
    [job_id |-> id, state |-> "running", processed_days |-> 0,
     total_days |-> total, written_points |-> 0, last_errors |-> << >>]

PipelineJobStates == {"running", "done", "failed"}

\* uuid.uuid4(): an id not in JOBS.
FreshPipelineId == Cardinality(DOMAIN JOBS) + 1
\* An id start_history_job never handed out.
NeverCreatedId == MaxPipelineCalls + 1

\* Lines 296-327: accept topics, compute total_days, register the job.
StartHistoryJob ==
    /\ ppc = "idle"
    /\ pcalls < MaxPipelineCalls
    /\ pcalls' = pcalls + 1
    /\ \E topics \in TopicLists, days_back \in 0..MaxDaysBack,
          write \in BOOLEAN, max_days_per_run \in 1..MaxDaysBack,
          max_topics_per_run \in 1..MaxTopics :
          LET total_days == Min(days_back, max_days_per_run) IN
          /\ JOBS' = (FreshPipelineId :> NewPipelineJob(FreshPipelineId, total_days))
                     @@ JOBS
          /\ pjob' = [job_id |-> FreshPipelineId,
                      accepted |-> Accepted(Prefix(topics, max_topics_per_run)),
                      days_back |-> days_back,
                      max_days_per_run |-> max_days_per_run,
                      write |-> write, idx |-> 0, rows |-> << >>]
    /\ ppc' = "days"
    /\ UNCHANGED <<cache, pstatus>>
    /\ UNCHANGED not_pipe

\* The rows one day adds: one per accepted topic (lines 333-337).
RECURSIVE DayRows(_, _)
DayRows(q, d) ==
    IF q = << >> THEN << >> ELSE <<<<Head(q), d>>>> \o DayRows(Tail(q), d)

\* An except clause that lets the job end as done.
PipelineFailAsDone(job, msg) ==
    [job EXCEPT !.state = "done", !.last_errors = Append(@, msg)]

\* Lines 346-348: the except clause.
PipelineFail(job, msg) ==
    [job EXCEPT !.state = "failed", !.last_errors = Append(@, msg)]

\* Lines 331-338, one iteration of the loop over days: every accepted topic
\* is computed, then processed_days is set; an exception of compute_forecast
\* goes to the except clause.
HistoryDay ==
    /\ ppc = "days"
    /\ pjob.idx < JOBS[pjob.job_id].total_days
    /\ \/ /\ pjob' = [pjob EXCEPT !.idx = @ + 1,
                                  !.rows = @ \o DayRows(pjob.accepted, pjob.idx)]
          /\ JOBS' = [JOBS EXCEPT ![pjob.job_id].processed_days = pjob.idx + 1]
          /\ UNCHANGED ppc
       \/ /\ pjob.accepted # << >>
          /\ JOBS' = [JOBS EXCEPT
                        ![pjob.job_id] = PipelineFail(@, "compute_forecast failed")]
          /\ ppc' = "return"
          /\ UNCHANGED pjob
    /\ UNCHANGED <<cache, pcalls, pstatus>>
    /\ UNCHANGED not_pipe

\* Lines 340-348, after the loop: write the rows when asked to and there
\* are some, then state = done; an exception of the write goes to the
\* except clause.
HistoryFinish ==
    /\ ppc = "days"
    /\ pjob.idx >= JOBS[pjob.job_id].total_days
    /\ IF pjob.write /\ pjob.rows # << >>
       THEN \/ /\ cache' = cache \cup {pjob.rows[i] : i \in DOMAIN pjob.rows}
               /\ JOBS' = [JOBS EXCEPT
                             ![pjob.job_id].written_points = Len(pjob.rows),
                             ![pjob.job_id].state = "done"]
            \/ /\ JOBS' = [JOBS EXCEPT
                             ![pjob.job_id] = PipelineFail(@, "write failed")]
               /\ UNCHANGED cache
       ELSE /\ JOBS' = [JOBS EXCEPT ![pjob.job_id].state = "done"]
            /\ UNCHANGED cache
    /\ ppc' = "return"
    /\ UNCHANGED <<pcalls, pjob, pstatus>>
    /\ UNCHANGED not_pipe

\* Line 350.
HistoryReturn ==
    /\ ppc = "return"
    /\ ppc' = "idle"
    /\ pjob' = NoneDict
    /\ UNCHANGED <<JOBS, cache, pcalls, pstatus>>
    /\ UNCHANGED not_pipe

\* Lines 356-363: the default of JOBS.get for an id that is not in JOBS.
JobNotFound(id) ==
    [job_id |-> id, state |-> "failed", processed_days |-> 0,
     total_days |-> 0, written_points |-> 0,
     last_errors |-> <<"job not found">>]

\* get_job_status, lines 353-364: JOBS.get(job_id, default).  For a known
\* id the result is the registry's own dict (ref), not a copy.
JobsGet(id) ==
    IF id \in DOMAIN JOBS THEN [asked |-> id, ref |-> id]
    ELSE [asked |-> id, default |-> JobNotFound(id)]

\* The dict a get_job_status result denotes now.
StatusValue(r) == IF "ref" \in DOMAIN r THEN JOBS[r.ref] ELSE r.default

\* A call of forecast_pipeline.get_job_status, at any moment.
PipelineGetJobStatus ==
    /\ \E id \in DOMAIN JOBS \cup {NeverCreatedId} : pstatus' = JobsGet(id)
    /\ UNCHANGED <<JOBS, cache, ppc, pcalls, pjob>>
    /\ UNCHANGED not_pipe

\* --------------------------------------------------------- specifications
CreateJobStep(t) ==
    \/ CreateJobAcquire(t)
    \/ CreateJobBody(t)
    \/ CreateJobRelease(t)

RunJobStep(t) ==
    \/ RunJobStart(t)
    \/ SetStateAcquire(t)
    \/ SetStateBody(t)
    \/ SetStateRelease(t)
    \/ RunJobReadDays(t)
    \/ RunJobCallRunHistory(t)
    \/ RunJobFinallyAcquire(t)
    \/ RunJobFinallyBody(t)
    \/ RunJobFinallyRelease(t)
    \/ RunJobReturn(t)

GetJobStep(t) ==
    \/ GetJobAcquire(t)
    \/ GetJobBody(t)
    \/ GetJobRelease(t)

\* What a thread does once a request was accepted.
Progress(t) ==
    \/ CreateJobStep(t)
    \/ GenerateHistoryRespond(t)
    \/ RunJobStep(t)
    \/ GetJobStep(t)
    \/ GetJobStatusRespond(t)

Next ==
    \E t \in Threads :
        \/ GenerateHistoryJob(t)
        \/ GetJobStatus(t)
        \/ Progress(t)

\* The service as the HTTP application drives it: run_job runs once, in
\* the background, for each job create_job returned with started = true.
Spec == Init /\ [][Next]_vars

\* The service with run_job also called directly for existing jobs.
NextRerun == Next \/ \E t \in Threads : RunJobAgain(t)

SpecRerun == Init /\ [][NextRerun]_vars

\* forecast_pipeline's job registry on its own.
PipelineNext ==
    \/ StartHistoryJob
    \/ HistoryDay
    \/ HistoryFinish
    \/ HistoryReturn
    \/ PipelineGetJobStatus

SpecPipeline == Init /\ [][PipelineNext]_vars

\* ================================================================ claims
Active(j) == jobs[j].state \in {QUEUED, RUNNING}
ActiveJobs == {j \in DOMAIN jobs : Active(j)}
HasCreation(t) == ~IsNone(creation[t])
\* The positions of run_job from its call to its end.
RunJobPcs == {"rj_start", "ss_lock", "ss_body", "ss_unlock", "rj_try",
              "rj_call", "rf_lock", "rf_body", "rf_unlock", "rj_return"}

\* C1: single flight - in every reachable state at most one job record is
\* in state queued or running.
C1_SingleFlight == Cardinality(ActiveJobs) <= 1

\* C1 witness: a failed job exists next to an active one, and a second
\* create_job call has just been answered with that active job.
C1_Witness ==
    \E j \in DOMAIN jobs, k \in DOMAIN jobs, t \in Threads :
        /\ jobs[j].state = FAILED
        /\ Active(k)
        /\ pc[t] = "cj_unlock"
        /\ creation[t] = [started |-> FALSE, job |-> k]

\* C2: create_job, at the moment it returns (still holding the lock):
\* started = false exactly when a job was queued or running, the job
\* returned then being that job; otherwise a new queued job that is the
\* sole active job, with started = true.  Never started = false with a
\* completed or failed job.
C2_CreateJobContract ==
    \A t \in Threads :
        pc[t] = "cj_unlock" =>
            /\ ~creation[t].started => Active(creation[t].job)
            /\ creation[t].started =>
                  /\ jobs[creation[t].job].state = QUEUED
                  /\ running_job_id = creation[t].job
                  /\ ActiveJobs = {creation[t].job}

\* C3: when a create_job call returns while the job that another call
\* created (started = true) is still queued or running, it returns that
\* same job with started = false; no two calls report started = true for
\* one job, and at most one run_job is under way per job.
C3_ConcurrentCreate ==
    /\ \A t \in Threads, u \in Threads :
          ( /\ t # u
            /\ pc[u] = "cj_unlock"
            /\ HasCreation(t)
            /\ creation[t].started
            /\ Active(creation[t].job) )
          => creation[u] = [started |-> FALSE, job |-> creation[t].job]
    /\ \A t \in Threads, u \in Threads :
          ( /\ t # u
            /\ HasCreation(t) /\ HasCreation(u)
            /\ creation[t].started /\ creation[u].started )
          => creation[t].job # creation[u].job
    /\ \A j \in DOMAIN jobs :
          Cardinality({t \in Threads : pc[t] \in RunJobPcs /\ job_id[t] = j}) <= 1

\* C3 witness: two create_job calls in flight at once, the first not yet
\* answered by its handler, the second returning the first one's job.
C3_Witness ==
    \E t \in Threads, u \in Threads :
        /\ t # u
        /\ pc[t] = "gh_respond"
        /\ creation[t].started
        /\ pc[u] = "cj_unlock"
        /\ creation[u] = [started |-> FALSE, job |-> creation[t].job]

\* C4: a job's state changes only queued -> running, running -> completed
\* and running -> failed, also when run_job is called again for its id.
AllowedTransitions ==
    {<<QUEUED, RUNNING>>, <<RUNNING, COMPLETED>>, <<RUNNING, FAILED>>}

C4_StateMachine ==
    [][\A j \in DOMAIN jobs :
          jobs'[j].state # jobs[j].state
          => <<jobs[j].state, jobs'[j].state>> \in AllowedTransitions]_vars

\* C5: when a run_job whose backfill raised ends, the job is failed, its
\* error is the exception's message, finished_at is set and the active
\* slot no longer holds the job; and create_job answers started = false
\* only with a job whose run_job has not ended, so the next create_job
\* after the end creates a new job.
C5_FailureReleasesSlot ==
    /\ \A t \in Threads :
          (pc[t] = "rj_return" /\ exc[t] # NoneStr) =>
              /\ jobs[job_id[t]].state = FAILED
              /\ jobs[job_id[t]].error = exc[t]
              /\ jobs[job_id[t]].finished_at # None
              /\ running_job_id # job_id[t]
    /\ \A u \in Threads :
          (pc[u] = "cj_unlock" /\ ~creation[u].started) =>
              \E t \in Threads :
                  /\ t # u
                  /\ HasCreation(t)
                  /\ creation[t] = [started |-> TRUE, job |-> creation[u].job]
                  /\ pc[t] # "rj_return"

\* C5 witness: a job failed with the exception's message, its run_job has
\* ended, and a later create_job has created a new job with started = true.
C5_Witness ==
    \E u \in Threads, j \in DOMAIN jobs :
        /\ pc[u] = "cj_unlock"
        /\ creation[u].started
        /\ creation[u].job # j
        /\ jobs[j].state = FAILED
        /\ jobs[j].error = TypeErrorMsg
        /\ jobs[j].finished_at # None
        /\ \A t \in Threads : job_id[t] # j

\* C6: run_job never ends with an exception in flight (it raises nothing
\* to its caller).
C6_NoPropagation ==
    \A t \in Threads : pc[t] = "rj_return" => exc[t] = NoneStr

\* C7: when the run_job of a job ends and the backfill met no upstream or
\* storage error, the job is completed, with started_at and finished_at
\* set and error null, and the active slot is free of it.
C7_CompletesWithoutError ==
    \A t \in Threads :
        (pc[t] = "rj_return" /\ exc[t] # UpstreamErrorMsg) =>
            /\ jobs[job_id[t]].state = COMPLETED
            /\ jobs[job_id[t]].started_at # None
            /\ jobs[job_id[t]].finished_at # None
            /\ jobs[job_id[t]].error = NoneStr
            /\ running_job_id # job_id[t]

\* C8, HistoryJobService half: get_job returns None for an id without a
\* job and the job's current fields otherwise; the HTTP layer answers 404,
\* without a job, exactly for None.
C8_ServiceLookup ==
    \A t \in Threads :
        /\ pc[t] = "gj_unlock" =>
              IF job_id[t] \in DOMAIN jobs
              THEN got[t] = jobs[job_id[t]]
              ELSE IsNone(got[t])
        /\ pc[t] = "gs_respond" =>
              /\ IsNone(got[t]) <=> GetJobStatusResponse(t).status = 404
              /\ IsNone(got[t]) => "job" \notin DOMAIN GetJobStatusResponse(t)

\* C8, forecast_pipeline half: get_job_status for an id that was never
\* created returns something that is not a job record in a job state, and
\* for a created id the job's current fields.
C8_PipelineLookup ==
    ~IsNone(pstatus) =>
        IF pstatus.asked \in DOMAIN JOBS
        THEN StatusValue(pstatus) = JOBS[pstatus.asked]
        ELSE StatusValue(pstatus).state \notin PipelineJobStates

\* C8: a status lookup for an id that was never created returns a
\* not-found result that is no job record in any job state, and a lookup
\* for a created id returns the job's current fields; for
\* HistoryJobService.get_job and for forecast_pipeline.get_job_status.
C8_NotFoundDistinct == C8_ServiceLookup /\ C8_PipelineLookup

\* C9: every step that reads or writes a job record or the active slot is
\* taken by a thread that holds the service lock.
AccessesJobTable(t) ==
    \/ CreateJobBody(t)
    \/ SetStateBody(t)
    \/ RunJobReadDays(t)
    \/ RunJobFinallyBody(t)
    \/ GetJobBody(t)
    \/ GenerateHistoryRespond(t)

C9_AccessUnderLock ==
    [][\A t \in Threads : AccessesJobTable(t) => lock = t]_vars

\* C10: the thread that runs the backfill does not hold the lock; while a
\* job is running, a create_job call returns that job with started = false
\* and a get_job call returns a record in state running.
C10_NoLockDuringBackfill ==
    /\ \A t \in Threads : pc[t] \in {"rj_try", "rj_call"} => lock # t
    /\ \A u \in Threads, j \in DOMAIN jobs :
          (pc[u] = "cj_unlock" /\ jobs[j].state = RUNNING)
          => creation[u] = [started |-> FALSE, job |-> j]
    /\ \A u \in Threads :
          ( /\ pc[u] = "gj_unlock"
            /\ job_id[u] \in DOMAIN jobs
            /\ jobs[job_id[u]].state = RUNNING )
          => got[u].state = RUNNING

\* C10 witness: one thread is inside run_history while another has just
\* been answered by create_job with the running job.
C10_Witness ==
    \E t \in Threads, u \in Threads :
        /\ pc[t] = "rj_call"
        /\ jobs[job_id[t]].state = RUNNING
        /\ pc[u] = "cj_unlock"
        /\ creation[u] = [started |-> FALSE, job |-> job_id[t]]

\* ============================================================ Part 3
\* weather_service.py: get_weather_for_date and its two sources,
\* weather_db.extract_weather_from_db and weather_api.get_forecast_by_coords.

\* A value that may be None: the empty set, or the singleton of the value.
Nothing == {}
Just(v) == {v}

\* dict.get(key) of a record: None for a missing key.
RecGet(rec, key) == IF key \in DOMAIN rec THEN rec[key] ELSE Nothing

\* The weather records a source may deliver: both fields null, one of the
\* two present (temperature 0 included), or the fields missing altogether.
WeatherRecords ==
    { [time |-> 1, temp_c |-> Nothing, cloud |-> Nothing],
      [time |-> 1, temp_c |-> Just(0), cloud |-> Nothing],
      [time |-> 1, temp_c |-> Nothing, cloud |-> Just(50)],
      [time |-> 1] }

RecordLists == UNION {[1..n -> WeatherRecords] : n \in 0..MaxRecords}

\* What a loader call can end in.
\* A list of records (extract_weather_from_db lines 116-181).
ListOutcome(recs) == [kind |-> "list", records |-> recs]
\* None (get_forecast_by_coords line 62, after any failure of the request).
NoneOutcome == [kind |-> "none"]
\* The dict get_forecast_by_coords returns on success (lines 49-58): seven
\* keys, the values of time, temp_c and cloud being lists of 96 entries.
ForecastDict ==
    [kind |-> "forecast",
     keys |-> <<"date", "location", "lat", "lon", "time", "temp_c", "cloud">>]
\* WeatherArchiveError(stage, message) (weather_db lines 16-20).
ArchiveError(stage, message) ==
    [kind |-> "archive_error", stage |-> stage, message |-> message]
\* Any other exception.
OtherError(message) == [kind |-> "error", message |-> message]

ArchiveOutcomes ==
    {ListOutcome(r) : r \in RecordLists}
    \cup {NoneOutcome,
          ArchiveError("java_deserialization", "decode failed"),
          OtherError("archive failure")}

\* The live API client returns None or the forecast dict; record lists,
\* and an exception, stand for a client of the shape the resolver expects.
ApiOutcomes ==
    {ListOutcome(r) : r \in RecordLists}
    \cup {NoneOutcome, ForecastDict, OtherError("api failure")}

\* bool(x) of what a loader returned.
Truthy(x) ==
    CASE x.kind = "list" -> x.records # << >>
      [] x.kind = "none" -> FALSE
      [] x.kind = "forecast" -> TRUE

\* len(records)
RecordCount(x) == IF x.kind = "list" THEN Len(x.records) ELSE Len(x.keys)

EmptyList == ListOutcome(<< >>)

\* _load, lines 43-53: `loader() or []`, an exception of the loader turned
\* into a stage and an error entry of diagnostics and an empty list.
Load(source, outcome, diag) ==
    CASE outcome.kind = "archive_error" ->
            [records |-> EmptyList,
             diag |-> (source \o "_stage" :> outcome.stage)
                      @@ (source \o "_error" :> outcome.message) @@ diag]
      [] outcome.kind = "error" ->
            [records |-> EmptyList,
             diag |-> (source \o "_stage" :> "unexpected")
                      @@ (source \o "_error" :> outcome.message) @@ diag]
      [] OTHER ->
            [records |-> IF Truthy(outcome) THEN outcome ELSE EmptyList,
             diag |-> diag]

\* Line 19: whether a record counts.
HasValue(rec) == RecGet(rec, "temp_c") # Nothing \/ RecGet(rec, "cloud") # Nothing

AttributeErrorMsg == "'str' object has no attribute 'get'"

\* _weather_non_null_points, lines 17-19.  Iterating a list yields its
\* records; iterating the forecast dict yields its keys, which are strings,
\* and rec.get raises AttributeError on the first of them.
NonNullPoints(x) ==
    IF x.kind = "list"
    THEN [raised |-> NoneStr,
          count |-> Cardinality({i \in DOMAIN x.records : HasValue(x.records[i])})]
    ELSE [raised |-> AttributeErrorMsg, count |-> 0]

\* `diagnostics or None`
DiagOrNone(diag) == IF DOMAIN diag = {} THEN NoneDict ELSE diag

\* Lines 64-72 (and 76-84): what follows a load.  "raise" when counting
\* the points raised, "ok" with the result of lines 69/81, else "miss"
\* with the diagnostics of an all-null record set added.
Evaluate(source, records, diag) ==
    LET n == NonNullPoints(records)
        d1 == IF Truthy(records)
              THEN (source \o "_records" :> ToString(RecordCount(records)))
                   @@ (source \o "_non_null_points" :> ToString(n.count))
                   @@ diag
              ELSE diag
        d2 == IF Truthy(records)
              THEN (source \o "_stage" :> "empty_weather_values")
                   @@ (source \o "_error" :>
                         "records are present, but temp_c/cloud are null for all points")
                   @@ d1
              ELSE d1
    IN  IF n.raised # NoneStr
        THEN [outcome |-> "raise", diag |-> diag,
              result |-> [raised |-> n.raised]]
        ELSE IF Truthy(records) /\ n.count > 0
        THEN [outcome |-> "ok", diag |-> d1,
              result |-> [records |-> records.records, source |-> source,
                          status |-> "ok", diagnostics |-> DiagOrNone(d1)]]
        ELSE [outcome |-> "miss", diag |-> d2, result |-> NoneDict]

\* Today's date taken for a past one.
PrimarySourceTodayIsPast(prediction_date, today) ==
    IF prediction_date <= today THEN "archive_db" ELSE "weather_api"

\* Lines 55-60: which source is primary.
PrimarySource(prediction_date, today) ==
    IF prediction_date < today THEN "archive_db" ELSE "weather_api"

SecondarySource(prediction_date, today) ==
    IF prediction_date < today THEN "weather_api" ELSE "archive_db"

\* What the loader of `source` ends in for this call.
LoaderOutcome(source) ==
    IF source = "archive_db" THEN w_args.archive ELSE w_args.api

\* Lines 39-62: a call, with today's date and what the sources will answer.
GetWeatherForDate ==
    /\ w_pc = "idle"
    /\ \E today \in 0..MaxDate, prediction_date \in 0..MaxDate,
          archive \in ArchiveOutcomes, api \in ApiOutcomes :
          /\ w_args' = [today |-> today, prediction_date |-> prediction_date,
                        archive |-> archive, api |-> api]
          /\ w_primary' = PrimarySource(prediction_date, today)
          /\ w_secondary' = SecondarySource(prediction_date, today)
    /\ w_pc' = "load_primary"
    /\ UNCHANGED <<w_records, w_diag, w_fetched, w_result>>
    /\ UNCHANGED not_weather

\* Line 63.
LoadPrimary ==
    /\ w_pc = "load_primary"
    /\ LET l == Load(w_primary, LoaderOutcome(w_primary), w_diag) IN
          /\ w_records' = l.records
          /\ w_diag' = l.diag
    /\ w_fetched' = Append(w_fetched, w_primary)
    /\ w_pc' = "eval_primary"
    /\ UNCHANGED <<w_args, w_primary, w_secondary, w_result>>
    /\ UNCHANGED not_weather

\* The secondary source consulted whatever the primary one gave.
EvalPrimaryAlwaysFallsThrough ==
    /\ w_pc = "eval_primary"
    /\ LET e == Evaluate(w_primary, w_records, w_diag) IN
          /\ w_diag' = e.diag
          /\ w_result' = NoneDict
    /\ w_pc' = "load_secondary"
    /\ UNCHANGED <<w_args, w_primary, w_secondary, w_records, w_fetched>>
    /\ UNCHANGED not_weather

\* Lines 64-72.
EvalPrimary ==
    /\ w_pc = "eval_primary"
    /\ LET e == Evaluate(w_primary, w_records, w_diag) IN
          /\ w_diag' = e.diag
          /\ w_result' = e.result
          /\ w_pc' = IF e.outcome = "miss" THEN "load_secondary" ELSE "done"
    /\ UNCHANGED <<w_args, w_primary, w_secondary, w_records, w_fetched>>
    /\ UNCHANGED not_weather

\* Line 75.
LoadSecondary ==
    /\ w_pc = "load_secondary"
    /\ LET l == Load(w_secondary, LoaderOutcome(w_secondary), w_diag) IN
          /\ w_records' = l.records
          /\ w_diag' = l.diag
    /\ w_fetched' = Append(w_fetched, w_secondary)
    /\ w_pc' = "eval_secondary"
    /\ UNCHANGED <<w_args, w_primary, w_secondary, w_result>>
    /\ UNCHANGED not_weather

\* Lines 76-86.
EvalSecondary ==
    /\ w_pc = "eval_secondary"
    /\ LET e == Evaluate(w_secondary, w_records, w_diag) IN
          /\ w_diag' = e.diag
          /\ w_result' =
                IF e.outcome = "miss"
                THEN [records |-> << >>, source |-> "none",
                      status |-> "no_data", diagnostics |-> DiagOrNone(e.diag)]
                ELSE e.result
    /\ w_pc' = "done"
    /\ UNCHANGED <<w_args, w_primary, w_secondary, w_records, w_fetched>>
    /\ UNCHANGED not_weather

\* The caller has the result (or the exception); the locals are gone.
WeatherReturn ==
    /\ w_pc = "done"
    /\ w_pc' = "idle"
    /\ w_args' = NoneDict
    /\ w_primary' = NoneStr
    /\ w_secondary' = NoneStr
    /\ w_records' = EmptyList
    /\ w_diag' = << >>
    /\ w_fetched' = << >>
    /\ w_result' = NoneDict
    /\ UNCHANGED not_weather

WeatherNext ==
    \/ GetWeatherForDate
    \/ LoadPrimary
    \/ EvalPrimary
    \/ LoadSecondary
    \/ EvalSecondary
    \/ WeatherReturn

SpecWeather == Init /\ [][WeatherNext]_vars

\* ------------------------------------------------------------ Claims C11-C15

\* A source outcome that supplies at least one record with a non-null
\* temperature or cloud value.
UsableList(o) ==
    /\ o.kind = "list"
    /\ \E i \in DOMAIN o.records : HasValue(o.records[i])

\* The forecast the live API client returns carries 96 temperature and cloud
\* values (weather_api lines 41-58).
Usable(o) == UsableList(o) \/ o.kind = "forecast"

Raised(result) == "raised" \in DOMAIN result
Returned(result) == "status" \in DOMAIN result

\* C11: the primary source is chosen by the date alone: a date strictly
\* before today has the archive fetched first and the API second, today and
\* any later date have the API fetched first and the archive second.
C11_PrimaryByDate ==
    w_pc # "idle" =>
        LET order == IF w_args.prediction_date < w_args.today
                     THEN <<"archive_db", "weather_api">>
                     ELSE <<"weather_api", "archive_db">>
        IN  \A i \in DOMAIN w_fetched : i <= 2 /\ w_fetched[i] = order[i]

\* C11 witness: a call for today's date that fetched the API and then the
\* archive.
C11_Witness ==
    /\ w_pc = "eval_secondary"
    /\ w_args.prediction_date = w_args.today
    /\ w_fetched = <<"weather_api", "archive_db">>

\* C12: a finished call has status ok exactly when a source supplied a
\* usable record set, with the first such source in primary/secondary order
\* and its records; otherwise no_data, source none and no records.
C12_ResolutionRule ==
    w_pc = "done" =>
        LET p == LoaderOutcome(w_primary)
            q == LoaderOutcome(w_secondary)
            first == IF Usable(p) THEN w_primary ELSE w_secondary
            set == IF Usable(p) THEN p ELSE q
        IN  /\ Returned(w_result)
            /\ IF Usable(p) \/ Usable(q)
               THEN /\ w_result.status = "ok"
                    /\ w_result.source = first
                    /\ set.kind = "list" => w_result.records = set.records
               ELSE /\ w_result.status = "no_data"
                    /\ w_result.source = "none"
                    /\ w_result.records = << >>

\* The rule of C12 for the calls in which the API answered with a list of
\* records or nothing.
C12_RuleForRecordLists ==
    (w_pc = "done" /\ w_args.api.kind # "forecast") => C12_ResolutionRule

\* C13: no outcome of a source makes the call raise, and a source whose
\* fetch raised has its stage and error in the diagnostics.
C13_NeverRaises ==
    w_pc = "done" =>
        /\ ~Raised(w_result)
        /\ \A i \in DOMAIN w_fetched :
              LoaderOutcome(w_fetched[i]).kind \in {"archive_error", "error"} =>
                  /\ ~IsNone(w_result.diagnostics)
                  /\ {w_fetched[i] \o "_stage", w_fetched[i] \o "_error"}
                        \subseteq DOMAIN w_result.diagnostics

\* C13 for the calls in which the API answered with a list of records or
\* nothing.
C13_NeverRaisesForRecordLists ==
    (w_pc = "done" /\ w_args.api.kind # "forecast") => C13_NeverRaises

\* C14: a date before today whose archive has no usable point and whose
\* API forecast has usable values resolves to source weather_api, status ok.
C14_PastDateFallsBackToApi ==
    ( /\ w_pc = "done"
      /\ w_args.prediction_date < w_args.today
      /\ ~Usable(w_args.archive)
      /\ Usable(w_args.api) ) =>
        /\ Returned(w_result)
        /\ w_result.source = "weather_api"
        /\ w_result.status = "ok"

\* C15: each source is fetched at most once, the primary one first, the
\* secondary one only after the primary one gave nothing usable, and
\* no_data is answered only after both were fetched.
C15_FetchOrder ==
    w_pc # "idle" =>
        /\ Len(w_fetched) <= 2
        /\ \A i, j \in DOMAIN w_fetched : w_fetched[i] = w_fetched[j] => i = j
        /\ Len(w_fetched) >= 1 => w_fetched[1] = w_primary
        /\ Len(w_fetched) = 2 =>
              /\ w_fetched[2] = w_secondary
              /\ ~Usable(LoaderOutcome(w_primary))
        /\ (Returned(w_result) /\ w_result.status = "no_data") =>
              Len(w_fetched) = 2

\* C15 witness: the primary source gave usable records and the call ended
\* with one fetch; the case of two fetches is the witness of C11.
C15_Witness ==
    /\ w_pc = "done"
    /\ w_fetched = <<w_primary>>
    /\ Returned(w_result)
    /\ w_result.status = "ok"

\* ============================================================ Part 4
\* The production estimator: jobs/generate_forecasts.py _build_rows_for_topic
\* (lines 19-72) and the loop of forecast_pipeline.compute_forecast (lines
\* 209-293).

\* Python floats: a finite number kept in thousandths, NaN, or an infinity.
Fin(n) == [k |-> "fin", v |-> n]
NaN == [k |-> "nan", v |-> 0]
Infinity == [k |-> "inf", v |-> 1]
Num(n) == Fin(n * 1000)

\* a * b
FMul(a, b) ==
    CASE a.k = "nan" \/ b.k = "nan" -> NaN
      [] a.k = "fin" /\ b.k = "fin" -> Fin((a.v * b.v) \div 1000)
      [] a.k = "fin" /\ a.v = 0 -> NaN
      [] b.k = "fin" /\ b.v = 0 -> NaN
      [] OTHER -> Infinity

\* a / n for a constant n
FDiv(a, n) == IF a.k = "fin" THEN Fin(a.v \div n) ELSE a

\* a < b of two floats: False whenever one of them is NaN.
FLess(a, b) ==
    CASE a.k = "nan" \/ b.k = "nan" -> FALSE
      [] a.k = "fin" /\ b.k = "fin" -> a.v < b.v
      [] OTHER -> b.k = "inf" /\ a.k = "fin"

THRESHOLD_RADIATION == 40

\* rec.get(key, default)
RecGetDefault(rec, key, default) ==
    IF key \in DOMAIN rec THEN rec[key] ELSE Just(default)

\* float(x or default): None and every falsy number, 0 included, give the
\* default; NaN is truthy.
OrDefault(x, default) ==
    IF x = Nothing THEN default
    ELSE LET v == CHOOSE y \in x : TRUE
         IN  IF v.k = "fin" /\ v.v = 0 THEN default ELSE v

\* Line 64 (258): temp_c=float(rec.get("temp_c", 25) or 25)
TempArgument(rec) == OrDefault(RecGetDefault(rec, "temp_c", Num(25)), Num(25))

\* Lines 56 and 65 (248, 259): float(rec.get("cloud", 0) or 0)
CloudPercent(rec) == OrDefault(RecGetDefault(rec, "cloud", Num(0)), Num(0))

\* Line 65 (259): cloud_cover=... / 100.0
CloudCoverArgument(rec) == FDiv(CloudPercent(rec), 100)

\* The weather records the estimator iterates: temperature and cloud each
\* missing, null, zero, positive or NaN, and a record without a time.
TempValues == {Nothing, Just(Num(0)), Just(Num(30)), Just(NaN)}
CloudValues == {Nothing, Just(Num(0)), Just(Num(50)), Just(NaN)}

EstimatorRecords ==
    {[time |-> "t", temp_c |-> t, cloud |-> Just(Num(50))] : t \in TempValues}
    \cup {[time |-> "t", temp_c |-> Just(Num(30)), cloud |-> c] : c \in CloudValues}
    \cup {[time |-> "t", cloud |-> Just(Num(50))],
          [time |-> "t", temp_c |-> Just(Num(30))],
          [temp_c |-> Just(Num(30)), cloud |-> Just(Num(50))]}

\* calculate_panel_irradiance around the threshold: 0, 39.9, 40 and 40.1.
Irradiances == {Fin(0), Fin(39900), Num(40), Fin(40100)}

\* What model.predict may return.
ModelOutputs == {Num(35), NaN, Infinity}

\* Topic specifications: complete, without module dimensions, or none.
TagSpecifications ==
    { [module_length |-> Just(Num(2000)), module_width |-> Just(Num(1000)),
       module_efficiency |-> Just(Num(20)), total_panels |-> 2],
      [module_length |-> Nothing, module_width |-> Nothing,
       module_efficiency |-> Just(Num(20)), total_panels |-> 2] }

\* Lines 38-39 of _build_rows_for_topic: nothing is built for such a topic.
SpecIncomplete(spec) ==
    \/ IsNone(spec)
    \/ spec.module_length = Nothing
    \/ spec.module_width = Nothing
    \/ spec.total_panels = 0

\* Line 41; compute_forecast line 225 puts 1000 for a missing dimension.
PanelArea(spec) ==
    FMul(FDiv(OrDefault(spec.module_length, Num(1000)), 1000),
         FDiv(OrDefault(spec.module_width, Num(1000)), 1000))

\* Line 42; compute_forecast line 226 puts 17.7 for a missing efficiency.
ModuleEfficiency(spec) ==
    FDiv(OrDefault(spec.module_efficiency, Fin(17700)), 100)

\* The threshold taken inclusively.
EffectiveIrradianceInclusive(irr, model_loaded, model_out) ==
    IF ~FLess(Num(THRESHOLD_RADIATION), irr) THEN Fin(0)
    ELSE IF model_loaded THEN model_out
    ELSE irr

\* Lines 53-59 (244-252): the irradiance that enters the base power.
EffectiveIrradiance(irr, model_loaded, model_out) ==
    IF FLess(irr, Num(THRESHOLD_RADIATION)) THEN Fin(0)
    ELSE IF model_loaded THEN model_out
    ELSE irr

\* Lines 53-57: whether model.predict is called.
ModelInvoked(irr, model_loaded) ==
    ~FLess(irr, Num(THRESHOLD_RADIATION)) /\ model_loaded

\* Line 61 (255): base = eff * panel_area * mod_eff
BasePower(eff, spec) == FMul(FMul(eff, PanelArea(spec)), ModuleEfficiency(spec))

\* production.calculate_system_production: temperature derating around
\* 25 degrees, cloud derating, scaling by the panel count.  On finite
\* arguments it is the product of the base power and its factors; what it
\* does with a non-finite argument is not fixed: a non-finite value, or a
\* number.
TemperatureFactor(temp_c) == Fin(1000 - 4 * ((temp_c.v - 25000) \div 1000))
CloudFactor(cloud_cover) == Fin(1000 - cloud_cover.v)

ProductionResults(panel_power, temp_c, cloud_cover, num_panels) ==
    IF panel_power.k = "fin" /\ temp_c.k = "fin" /\ cloud_cover.k = "fin"
    THEN {FMul(FMul(FMul(panel_power, TemperatureFactor(temp_c)),
                    CloudFactor(cloud_cover)), Num(num_panels))}
    ELSE {NaN, Infinity, Fin(0)}

\* _build_rows_for_topic lines 19-46: the specification is read, an
\* incomplete one ends the call with no rows, the model is loaded.
BuildRowsForTopic ==
    /\ e_pc = "idle"
    /\ \E spec \in TagSpecifications \cup {NoneDict}, model \in BOOLEAN,
          n \in 0..MaxRecords :
          /\ e_in' = [path |-> "build_rows", spec |-> spec, model |-> model]
          /\ IF SpecIncomplete(spec)
             THEN e_pc' = "done" /\ e_left' = 0
             ELSE e_pc' = "loop" /\ e_left' = n
    /\ UNCHANGED <<e_locals, e_rows, e_points, e_raised>>
    /\ UNCHANGED not_estimator

\* compute_forecast lines 209-233: a missing specification is a 404,
\* missing dimensions are replaced.
ComputeForecast ==
    /\ e_pc = "idle"
    /\ \E spec \in TagSpecifications \cup {NoneDict}, model \in BOOLEAN,
          n \in 0..MaxRecords :
          /\ e_in' = [path |-> "compute_forecast", spec |-> spec, model |-> model]
          /\ IF IsNone(spec)
             THEN e_pc' = "done" /\ e_left' = 0 /\ e_raised' = "HTTPException(404)"
             ELSE e_pc' = "loop" /\ e_left' = n /\ e_raised' = e_raised
    /\ UNCHANGED <<e_locals, e_rows, e_points>>
    /\ UNCHANGED not_estimator

\* One iteration of the loop, lines 47-71 (234-266).
EstimateRecord ==
    /\ e_pc = "loop"
    /\ e_left > 0
    /\ e_left' = e_left - 1
    /\ \E rec \in EstimatorRecords, irr \in Irradiances :
          IF "time" \notin DOMAIN rec
          THEN \* lines 48-50: `continue`; the points of compute_forecast
               \* all carry a time
               /\ e_in.path = "build_rows"
               /\ e_locals' = [rec |-> rec, skipped |-> TRUE]
               /\ UNCHANGED <<e_rows, e_points>>
          ELSE LET invoked == ModelInvoked(irr, e_in.model)
                   dt == Len(e_rows) + 1
               IN  \E out \in IF invoked THEN ModelOutputs ELSE {irr} :
                   LET eff == EffectiveIrradiance(irr, e_in.model, out)
                       base == BasePower(eff, e_in.spec)
                       temp_c == TempArgument(rec)
                       cloud_cover == CloudCoverArgument(rec)
                   IN  \E power \in ProductionResults(base, temp_c, cloud_cover,
                                                     e_in.spec.total_panels) :
                       /\ e_locals' = [rec |-> rec, skipped |-> FALSE, irr |-> irr,
                                       invoked |-> invoked, out |-> out,
                                       eff |-> eff, base |-> base,
                                       temp_c |-> temp_c,
                                       cloud_cover |-> cloud_cover,
                                       power |-> power]
                       /\ e_rows' = Append(e_rows, <<"A", dt, power>>)
                       /\ e_points' =
                             IF e_in.path = "compute_forecast"
                             THEN Append(e_points, [x |-> dt, y |-> power])
                             ELSE e_points
    /\ UNCHANGED <<e_pc, e_in, e_raised>>
    /\ UNCHANGED not_estimator

\* Line 72 (268-293): the rows, and the points, are returned as built.
EstimatorFinish ==
    /\ e_pc = "loop"
    /\ e_left = 0
    /\ e_pc' = "done"
    /\ e_locals' = NoneDict
    /\ UNCHANGED <<e_in, e_left, e_rows, e_points, e_raised>>
    /\ UNCHANGED not_estimator

\* The caller has the rows; the locals are gone.
EstimatorReturn ==
    /\ e_pc = "done"
    /\ e_pc' = "idle"
    /\ e_in' = NoneDict
    /\ e_left' = 0
    /\ e_locals' = NoneDict
    /\ e_rows' = << >>
    /\ e_points' = << >>
    /\ e_raised' = NoneStr
    /\ UNCHANGED not_estimator

EstimatorNext ==
    \/ BuildRowsForTopic
    \/ ComputeForecast
    \/ EstimateRecord
    \/ EstimatorFinish
    \/ EstimatorReturn

SpecEstimator == Init /\ [][EstimatorNext]_vars

\* ------------------------------------------------------------ Claims C16-C18

\* math.isfinite
IsFinite(x) == x.k = "fin"

\* An iteration that estimated a power for its record.
Estimated == e_pc = "loop" /\ ~IsNone(e_locals) /\ ~e_locals.skipped

\* Whether the key is in the record with a value other than None.
Present(rec, key) == key \in DOMAIN rec /\ rec[key] # Nothing

ValueOf(rec, key) == CHOOSE y \in rec[key] : TRUE

C17_WeatherArguments ==
    Estimated =>
        LET l == e_locals IN
        /\ l.temp_c = IF Present(l.rec, "temp_c")
                      THEN ValueOf(l.rec, "temp_c") ELSE Num(25)
        /\ l.cloud_cover = IF Present(l.rec, "cloud")
                           THEN FDiv(ValueOf(l.rec, "cloud"), 100) ELSE Num(0)

\* The cloud half of C17.
C17_CloudArgument ==
    Estimated =>
        e_locals.cloud_cover =
            IF Present(e_locals.rec, "cloud")
            THEN FDiv(ValueOf(e_locals.rec, "cloud"), 100) ELSE Num(0)

\* C18: no row built for the cache and no point built for the caller
\* carries a NaN or an infinity as its power.
C18_NoNonFinitePower ==
    /\ \A i \in DOMAIN e_rows : IsFinite(e_rows[i][3])
    /\ \A i \in DOMAIN e_points : IsFinite(e_points[i].y)

\* ============================================================ Part 5
\* forecast_db.py: the table pv_forecast_points, bulk_upsert_points (lines
\* 67-87) and select_points (lines 90-116).

\* The topics with cached rows, in the order of ORDER BY topic.
CachedTopics == <<"A", "U">>

SeqRange(q) == {q[i] : i \in DOMAIN q}

Timestamps == 1..MaxTs

\* What a write carries.
Powers == {1, 2}

\* Rows as the signature of bulk_upsert_points has them, (topic, ts, power,
\* source), a write of power 1 coming from the archive and one of power 2
\* from the API; and rows as _build_rows_for_topic (line 71) and
\* compute_forecast (line 266) build them, (topic, ts, power).
Rows4 ==
    {<<t, ts, 1, "archive_db">> : t \in SeqRange(CachedTopics), ts \in Timestamps}
    \cup {<<t, ts, 2, "weather_api">> : t \in SeqRange(CachedTopics), ts \in Timestamps}

Rows3 == {<<t, ts, p>> : t \in SeqRange(CachedTopics), ts \in Timestamps, p \in Powers}

Batches ==
    UNION {[1..n -> Rows4] : n \in 0..MaxBatch}
    \cup UNION {[1..n -> Rows3] : n \in 1..MaxBatch}

\* PRIMARY KEY (topic, ts), run_migrations line 23.
Key(row) == <<row[1], row[2]>>
RowKey(r) == <<r.topic, r.ts>>

\* execute_values(..., page_size=5000), line 84: one INSERT per page.
PageSize == 5000

NumPages(rows) == (Len(rows) + PageSize - 1) \div PageSize

Page(rows, i) == SubSeq(rows, (i - 1) * PageSize + 1, Min(i * PageSize, Len(rows)))

\* The INSERT of lines 72-78 names four columns; execute_values makes the
\* VALUES tuples as wide as the first row.
Columns == <<"topic", "ts", "power", "source">>

\* Whether the statement for a page is rejected: fewer expressions than
\* target columns, or ON CONFLICT DO UPDATE meeting one key twice in one
\* statement.
StatementFails(page) ==
    \/ Len(page[1]) # Len(Columns)
    \/ \E i, j \in DOMAIN page : i # j /\ Key(page[i]) = Key(page[j])

\* The table after the statement for a page: a row per key of the page,
\* in place of the row that had the key.
ApplyStatement(tbl, page) ==
    {r \in tbl : \A i \in DOMAIN page : Key(page[i]) # RowKey(r)}
    \cup {[topic |-> page[i][1], ts |-> page[i][2],
           power |-> page[i][3], source |-> page[i][4]] : i \in DOMAIN page}

RECURSIVE ApplyPages(_, _, _)
ApplyPages(tbl, rows, i) ==
    IF i > NumPages(rows) THEN tbl
    ELSE ApplyPages(ApplyStatement(tbl, Page(rows, i)), rows, i + 1)

\* bulk_upsert_points is called with a batch.
BulkUpsertPoints ==
    /\ d_pc = "idle"
    /\ \E rows \in Batches : d_args' = [rows |-> rows]
    /\ d_pc' = "upsert"
    /\ UNCHANGED <<table, d_result>>
    /\ UNCHANGED not_db

\* Lines 68-87: nothing for an empty batch; else the pages in one
\* transaction, committed only when no statement failed.
UpsertExecute ==
    /\ d_pc = "upsert"
    /\ LET rows == d_args.rows IN
       table' = IF rows = << >> THEN table
                ELSE IF \E i \in 1..NumPages(rows) : StatementFails(Page(rows, i))
                THEN table
                ELSE ApplyPages(table, rows, 1)
    /\ d_pc' = "idle"
    /\ d_args' = NoneDict
    /\ UNCHANGED d_result
    /\ UNCHANGED not_db

\* row["ts"].strftime("%Y-%m-%d %H:%M"), line 111.
Strftime(ts) == ToString(ts)

\* The rows of the query, lines 97-101, with `ts <= :end_ts`.
MatchingEndIncluded(tbl, topics, start_ts, end_ts) ==
    {r \in tbl : r.topic \in SeqRange(topics) /\ r.ts >= start_ts /\ r.ts <= end_ts}

\* The rows of the query, lines 97-101.
Matching(tbl, topics, start_ts, end_ts) ==
    {r \in tbl : r.topic \in SeqRange(topics) /\ r.ts >= start_ts /\ r.ts < end_ts}

TopicRank(topic) == CHOOSE i \in DOMAIN CachedTopics : CachedTopics[i] = topic

RowBefore(r, q) ==
    \/ TopicRank(r.topic) < TopicRank(q.topic)
    \/ r.topic = q.topic /\ r.ts <= q.ts

\* ORDER BY topic, ts, line 102.
RECURSIVE OrderByTopicTs(_)
OrderByTopicTs(rows) ==
    IF rows = {} THEN << >>
    ELSE LET first == CHOOSE r \in rows : \A q \in rows : RowBefore(r, q)
         IN  <<first>> \o OrderByTopicTs(rows \ {first})

\* Lines 109-114: each row appended to the list of its topic.
RECURSIVE Collect(_, _, _)
Collect(result, rows, i) ==
    IF i > Len(rows) THEN result
    ELSE LET row == rows[i]
             point == [x |-> Strftime(row.ts), y |-> row.power,
                       source |-> row.source]
         IN  Collect([result EXCEPT ![row.topic] = Append(@, point)], rows, i + 1)

\* select_points, lines 90-116.
SelectPointsResult(tbl, topics, start_ts, end_ts) ==
    IF topics = << >> THEN << >>
    ELSE Collect([t \in SeqRange(topics) |-> << >>],
                 OrderByTopicTs(Matching(tbl, topics, start_ts, end_ts)), 1)

TopicRequests == UNION {[1..n -> SeqRange(CachedTopics)] : n \in 0..MaxTopics}

SelectPoints ==
    /\ d_pc = "idle"
    /\ \E topics \in TopicRequests, start_ts \in 0..(MaxTs + 1),
          end_ts \in 0..(MaxTs + 1) :
          /\ d_args' = [topics |-> topics, start_ts |-> start_ts, end_ts |-> end_ts]
          /\ d_result' = SelectPointsResult(table, topics, start_ts, end_ts)
    /\ d_pc' = "selected"
    /\ UNCHANGED table
    /\ UNCHANGED not_db

\* The caller has the result.
SelectReturn ==
    /\ d_pc = "selected"
    /\ d_pc' = "idle"
    /\ d_args' = NoneDict
    /\ d_result' = NoneDict
    /\ UNCHANGED table
    /\ UNCHANGED not_db

CacheNext ==
    \/ BulkUpsertPoints
    \/ UpsertExecute
    \/ SelectPoints
    \/ SelectReturn

SpecCache == Init /\ [][CacheNext]_vars

\* ------------------------------------------------------------ Claims C19-C20

\* The last row of a batch with the key of row i.
LatestOf(rows, i) ==
    LET j == CHOOSE j \in DOMAIN rows :
                /\ Key(rows[j]) = Key(rows[i])
                /\ \A m \in DOMAIN rows : Key(rows[m]) = Key(rows[i]) => m <= j
    IN  rows[j]

SourceOf(row) == IF Len(row) >= 4 THEN row[4] ELSE "unknown"

\* The table holds exactly one row per key written, with the power and
\* source of the latest write of each key of the batch, and the rows of
\* the other keys as they were.
UpsertHolds(before, rows, after) ==
    /\ \A r, q \in after : RowKey(r) = RowKey(q) => r = q
    /\ \A i \in DOMAIN rows :
          [topic |-> rows[i][1], ts |-> rows[i][2],
           power |-> LatestOf(rows, i)[3],
           source |-> SourceOf(LatestOf(rows, i))] \in after
    /\ \A r \in before :
          (\A i \in DOMAIN rows : Key(rows[i]) # RowKey(r)) => r \in after
    /\ \A r \in after :
          r \in before \/ \E i \in DOMAIN rows : Key(rows[i]) = RowKey(r)

\* C19: after a call of bulk_upsert_points the cache holds one row per key
\* ever written, with the power and source of the latest write, whether a
\* key is repeated across calls or inside the batch.
C19_UpsertLatestWins ==
    [][d_pc = "upsert" => UpsertHolds(table, d_args.rows, table')]_vars

\* C19 for batches of four-column rows without a repeated key.
C19_DistinctKeysLatestWins ==
    [][ ( /\ d_pc = "upsert"
          /\ \A i \in DOMAIN d_args.rows : Len(d_args.rows[i]) = 4
          /\ \A i, j \in DOMAIN d_args.rows :
                Key(d_args.rows[i]) = Key(d_args.rows[j]) => i = j )
        => UpsertHolds(table, d_args.rows, table') ]_vars

\* C19 for batches of four-column rows.
C19_FourColumnsLatestWins ==
    [][ ( /\ d_pc = "upsert"
          /\ \A i \in DOMAIN d_args.rows : Len(d_args.rows[i]) = 4 )
        => UpsertHolds(table, d_args.rows, table') ]_vars

\* The points select_points owes for a topic: its cached rows in
\* [start_ts, end_ts), by ascending timestamp.
PointsOwed(topic, start_ts, end_ts) ==
    LET P == {r \in table : r.topic = topic /\ start_ts <= r.ts /\ r.ts < end_ts}
    IN  [i \in 1..Cardinality(P) |->
            LET r == CHOOSE r \in P : Cardinality({q \in P : q.ts <= r.ts}) = i
            IN  [x |-> Strftime(r.ts), y |-> r.power, source |-> r.source]]

\* C20: select_points returns for every requested topic, and for no other,
\* exactly its cached points with start <= ts < end in ascending order, an
\* empty list when there is none.
C20_SelectPoints ==
    d_pc = "selected" =>
        /\ DOMAIN d_result = SeqRange(d_args.topics)
        /\ \A t \in SeqRange(d_args.topics) :
              d_result[t] = PointsOwed(t, d_args.start_ts, d_args.end_ts)

\* C20 witness: two points of one topic returned in order, a row at the
\* end of the range left out, and a requested topic with an empty list
\* although it has a cached row outside the range.
C20_Witness ==
    /\ d_pc = "selected"
    /\ d_args.topics = <<"U", "A">>
    /\ d_args.start_ts = 1
    /\ d_args.end_ts = MaxTs
    /\ Len(d_result["A"]) = MaxTs - 1
    /\ d_result["U"] = << >>
    /\ \E r \in table : r.topic = "A" /\ r.ts = MaxTs
    /\ \E r \in table : r.topic = "U" /\ r.ts = MaxTs

\* ------------------------------------------------------------ Claims C27-C29

JobRecordConsistent(job) ==
    /\ job.started_at = None <=> job.state = QUEUED
    /\ job.finished_at # None <=> job.state \in {COMPLETED, FAILED}
    /\ job.error # NoneStr <=> job.state = FAILED

\* C27: every job record has started_at null exactly when queued,
\* finished_at set exactly when completed or failed, error set exactly when
\* failed; and its id, days and created_at never change.
C27_JobRecords ==
    /\ [](\A j \in DOMAIN jobs : JobRecordConsistent(jobs[j]))
    /\ [][\A j \in DOMAIN jobs :
             /\ jobs'[j].id = jobs[j].id
             /\ jobs'[j].days = jobs[j].days
             /\ jobs'[j].created_at = jobs[j].created_at]_vars

\* C27 witness: a failed job with all its fields set beside a newer job
\* that is running.
C27_Witness ==
    \E j, k \in DOMAIN jobs :
        /\ jobs[j].state = FAILED
        /\ jobs[j].error # NoneStr
        /\ jobs[j].started_at # None
        /\ jobs[j].finished_at # None
        /\ jobs[k].state = RUNNING
        /\ jobs[k].started_at # None
        /\ jobs[k].finished_at = None

\* C28: the active slot is empty or names a job of the table; a queued or
\* running job is the one in the slot; and when run_job has ended the slot
\* does not hold its job.
C28_ActiveSlot ==
    /\ running_job_id # None => running_job_id \in DOMAIN jobs
    /\ \A j \in DOMAIN jobs : Active(j) => running_job_id = j
    /\ \A t \in Threads : pc[t] = "rj_return" => running_job_id # job_id[t]

\* C28 witness: run_job of one job has ended with an exception while the
\* slot already holds the next job, which is queued.
C28_Witness ==
    \E t \in Threads :
        /\ pc[t] = "rj_return"
        /\ exc[t] # NoneStr
        /\ running_job_id # None
        /\ running_job_id # job_id[t]
        /\ jobs[running_job_id].state = QUEUED

\* C29: the job a caller was handed by create_job, and the one it was
\* handed by get_job, stay as they were while the caller holds them.
C29_ReturnedJobIsSnapshot ==
    [][\A t \in Threads :
          /\ (pc[t] \in {"cj_unlock", "gh_respond"} /\ pc'[t] = pc[t])
                => jobs'[creation[t].job] = jobs[creation[t].job]
          /\ (pc[t] \in {"gj_unlock", "gs_respond"} /\ pc'[t] = pc[t])
                => got'[t] = got[t]]_vars

\* The get_job half of C29.
C29_GetJobIsSnapshot ==
    [][\A t \in Threads :
          (pc[t] \in {"gj_unlock", "gs_respond"} /\ pc'[t] = pc[t])
             => got'[t] = got[t]]_vars

\* ============================================================ Part 6
\* weather_api.py: interpolate_15min (lines 9-17).

\* Line 13: the hourly index 00:00..23:00; line 15: the grid 00:00..23:45.
HoursPerDay == 24
SlotsPerHour == 4

Values == 0..MaxValue

\* The hourly series passed: a level, one hour of another level, and the
\* hours after it at a third; numbers only, as the API's hours carry.
HourlySeries ==
    {[h \in 1..HoursPerDay |->
         IF h < h0 THEN c ELSE IF h = h0 THEN d ELSE e] :
        h0 \in 1..HoursPerDay, c \in Values, d \in Values, e \in Values}

\* Line 16, s.reindex(new_times): the hourly values at their grid points,
\* NaN at the others.
Reindex(values) ==
    [k \in 1..(HoursPerDay * SlotsPerHour) |->
        IF (k - 1) % SlotsPerHour = 0
        THEN Just(values[(k - 1) \div SlotsPerHour + 1])
        ELSE Nothing]

ValidBefore(s, k) == {i \in DOMAIN s : i <= k /\ s[i] # Nothing}
ValidAfter(s, k) == {i \in DOMAIN s : i >= k /\ s[i] # Nothing}
Largest(S) == CHOOSE x \in S : \A y \in S : y <= x
Smallest(S) == CHOOSE x \in S : \A y \in S : x <= y
The(x) == CHOOSE y \in x : TRUE

\* A grid value repeated from the last valid one before it.
InterpolateHold(s, k) ==
    IF ValidBefore(s, k) = {} THEN Nothing
    ELSE Just(SlotsPerHour * The(s[Largest(ValidBefore(s, k))]))

\* Line 16, interpolate('linear'): a NaN between two valid points is put
\* on the line between them, by position; a NaN after the last valid
\* point takes its value; a NaN before the first stays.  The result is in
\* quarters of the unit.
InterpolateLinear(s, k) ==
    IF ValidBefore(s, k) = {} THEN Nothing
    ELSE LET p == Largest(ValidBefore(s, k)) IN
         IF ValidAfter(s, k) = {} THEN Just(SlotsPerHour * The(s[p]))
         ELSE LET n == Smallest(ValidAfter(s, k)) IN
              IF n = p THEN Just(SlotsPerHour * The(s[p]))
              ELSE Just((SlotsPerHour * The(s[p]) * (n - p)
                         + SlotsPerHour * (The(s[n]) - The(s[p])) * (k - p))
                        \div (n - p))

\* t.strftime("%Y-%m-%d %H:%M") of grid point k, line 17: hour and minute.
GridTime(k) ==
    <<(k - 1) \div SlotsPerHour, ((k - 1) % SlotsPerHour) * (60 \div SlotsPerHour)>>

\* interpolate_15min is called with a day's hourly values.
Interpolate15MinCall ==
    /\ i_pc = "idle"
    /\ \E values \in HourlySeries, next \in Values :
          /\ i_values' = values
          /\ i_next' = next
    /\ i_pc' = "called"
    /\ UNCHANGED <<i_times, i_out>>
    /\ UNCHANGED not_interp

\* Lines 13-17.
Interpolate15Min ==
    /\ i_pc = "called"
    /\ LET s == Reindex(i_values) IN
          /\ i_times' = [k \in DOMAIN s |-> GridTime(k)]
          /\ i_out' = [k \in DOMAIN s |-> InterpolateLinear(s, k)]
    /\ i_pc' = "returned"
    /\ UNCHANGED <<i_values, i_next>>
    /\ UNCHANGED not_interp

\* The caller has the two lists.
Interpolate15MinReturn ==
    /\ i_pc = "returned"
    /\ i_pc' = "idle"
    /\ i_values' = << >>
    /\ i_next' = None
    /\ i_times' = << >>
    /\ i_out' = << >>
    /\ UNCHANGED not_interp

InterpNext ==
    \/ Interpolate15MinCall
    \/ Interpolate15Min
    \/ Interpolate15MinReturn

SpecInterp == Init /\ [][InterpNext]_vars

\* ------------------------------------------------------------ Claim C24

\* Grid point k of hour h (0..23) and quarter q (0..3).
GridIndex(h, q) == h * 4 + q + 1

\* The value of hour h: of the series for the 24 hours of the day, and
\* the one that follows the day for hour 24.
HourValue(h) == IF h < 24 THEN i_values[h + 1] ELSE i_next

GridShape ==
    /\ Len(i_out) = 96
    /\ Len(i_times) = 96
    /\ \A h \in 0..23, q \in 0..3 : i_times[GridIndex(h, q)] = <<h, 15 * q>>
    /\ \A h \in 0..23 : i_out[GridIndex(h, 0)] = Just(4 * HourValue(h))

OnLine(h, q) ==
    i_out[GridIndex(h, q)] =
        Just(4 * HourValue(h) + q * (HourValue(h + 1) - HourValue(h)))

\* C24 as stated: 96 values on the grid 00:00..23:45, each HH:00 the value
\* of hour HH, and each HH:15, HH:30, HH:45 on the line between the values
\* of hour HH and hour HH+1, for every hour of the day.
C24_LinearEveryHour ==
    i_pc = "returned" =>
        /\ GridShape
        /\ \A h \in 0..23, q \in 1..3 : OnLine(h, q)

\* C24 amended: the same for the hours 00 to 22; the values at 23:15,
\* 23:30 and 23:45 are the value of hour 23.
C24_LinearUntilLastHour ==
    i_pc = "returned" =>
        /\ GridShape
        /\ \A h \in 0..22, q \in 1..3 : OnLine(h, q)
        /\ \A q \in 1..3 : i_out[GridIndex(23, q)] = Just(4 * HourValue(23))

\* C24 witness: a series that rises by 2 from 22:00 to 23:00, returned
\* with 22:30 halfway and 23:30 at the value of 23:00, while the hour
\* after the day is lower.
C24_Witness ==
    /\ i_pc = "returned"
    /\ i_values[23] = 0
    /\ i_values[24] = 2
    /\ i_next = 0
    /\ i_out[GridIndex(22, 2)] = Just(4)
    /\ i_out[GridIndex(23, 2)] = Just(8)

\* ============================================================ Part 7
\* forecast_db.py: _month_bounds (34-40), ensure_month_partitions
\* (43-59), and the callers that write rows.

FirstYear == 2025

\* A datetime: year, month, and the position of the instant in the month
\* (0 is the month's first instant).
Datetime(y, m, k) == [year |-> y, month |-> m, tick |-> k]

\* The datetimes of the months around the turn of the year.
Datetimes ==
    {Datetime(FirstYear, m, k) : m \in (13 - MaxSpan)..12, k \in 0..MaxTick}
    \cup {Datetime(FirstYear + 1, m, k) : m \in 1..MaxSpan, k \in 0..MaxTick}

\* a < b and a <= b of datetimes.
DtLess(a, b) ==
    \/ a.year < b.year
    \/ a.year = b.year /\ a.month < b.month
    \/ a.year = b.year /\ a.month = b.month /\ a.tick < b.tick

DtLE(a, b) == a = b \/ DtLess(a, b)

\* ts.replace(day=1, hour=0, minute=0, second=0, microsecond=0).
ReplaceFirstInstant(ts) == Datetime(ts.year, ts.month, 0)

\* Lines 34-40.
MonthBounds(ts) ==
    LET month_start == ReplaceFirstInstant(ts)
        next_month ==
            IF month_start.month = 12
            THEN Datetime(month_start.year + 1, 1, 0)
            ELSE Datetime(month_start.year, month_start.month + 1, 0)
    IN  <<month_start, next_month>>

\* Line 48: f"pv_forecast_points_{frm.year}_{frm.month:02d}".
TableName(frm) ==
    <<"pv_forecast_points", frm.year, frm.month \div 10, frm.month % 10>>

\* CREATE TABLE IF NOT EXISTS name PARTITION OF ... FROM (frm) TO (to),
\* lines 49-57: nothing when a table of that name exists.
CreateIfNotExists(parts, name, frm, to) ==
    IF \E q \in parts : q.name = name THEN parts
    ELSE parts \cup {[name |-> name, frm |-> frm, to |-> to]}

\* A loop guard that stops at the end instant itself.
CursorBeforeEnd(cursor, end_ts) == DtLess(cursor, end_ts)

\* Line 46: while cursor <= end_ts.
CursorInRange(cursor, end_ts) == DtLE(cursor, end_ts)

\* The callers of ensure_month_partitions that pass the timestamps of
\* their first and last row (forecast_pipeline.py 270, 341, 388), those
\* that pass the window of the run (generate_forecasts.py 79, 107), and
\* the admin endpoint, which writes without it (routes/test_ui.py 185-198).
RowRangePaths == {"compute_forecast", "start_history_job", "precompute_future_all_topics"}
WindowPaths == {"run_history", "run_future"}
AdminPath == "admin_jobs_generate"
Direct == "direct"

Range(a, b) == [start_ts |-> a, end_ts |-> b]

SameOrLaterMonth(a, b) == DtLE(ReplaceFirstInstant(a), ReplaceFirstInstant(b))

\* ensure_month_partitions(start_ts, end_ts) is entered, line 44.
EnsureEnter(path, range) ==
    /\ p_path' = path
    /\ p_args' = range
    /\ p_cursor' = ReplaceFirstInstant(range.start_ts)
    /\ p_pc' = "loop"

\* A call of ensure_month_partitions with start <= end.
EnsureCall ==
    /\ p_pc = "idle"
    /\ \E a \in Datetimes, b \in Datetimes :
          /\ DtLE(a, b)
          /\ EnsureEnter(Direct, Range(a, b))
    /\ UNCHANGED <<partitions, p_rows, p_result>>
    /\ UNCHANGED not_part

\* One pass of the loop, lines 46-58.
EnsureStep ==
    /\ p_pc = "loop"
    /\ CursorInRange(p_cursor, p_args.end_ts)
    /\ LET frm == MonthBounds(p_cursor)[1]
           to == MonthBounds(p_cursor)[2]
       IN  /\ partitions' = CreateIfNotExists(partitions, TableName(frm), frm, to)
           /\ p_cursor' = to
    /\ UNCHANGED <<p_pc, p_path, p_args, p_rows, p_result>>
    /\ UNCHANGED not_part

\* The loop ends and the transaction commits.
EnsureExit ==
    /\ p_pc = "loop"
    /\ ~CursorInRange(p_cursor, p_args.end_ts)
    /\ p_pc' = IF p_path = Direct THEN "done" ELSE "write"
    /\ UNCHANGED <<partitions, p_path, p_args, p_cursor, p_rows, p_result>>
    /\ UNCHANGED not_part

EnsureReturn ==
    /\ p_pc = "done"
    /\ p_pc' = "idle"
    /\ p_path' = NoneStr
    /\ p_args' = NoneDict
    /\ p_cursor' = NoneDict
    /\ UNCHANGED <<partitions, p_rows, p_result>>
    /\ UNCHANGED not_part

\* `if write and rows: ensure_month_partitions(rows[0][1], rows[-1][1])`,
\* forecast_pipeline.py 269-270, 340-341, 387-388: the rows are built in
\* the order of their days.
RowRangePathStart ==
    /\ p_pc = "idle"
    /\ \E path \in RowRangePaths, first \in Datetimes, last \in Datetimes :
          /\ DtLE(first, last)
          /\ p_rows' = <<first, last>>
          /\ EnsureEnter(path, Range(first, last))
    /\ UNCHANGED <<partitions, p_result>>
    /\ UNCHANGED not_part

\* run_history: ensure_month_partitions(start, now), rows of the days
\* start.date .. now.date (generate_forecasts.py 103-118); run_future:
\* ensure_month_partitions(now, end), rows of the days now.date ..
\* end.date (76-86).  The rows lie in the months of the window.
WindowPathStart ==
    /\ p_pc = "idle"
    /\ \E path \in WindowPaths, a \in Datetimes, b \in Datetimes,
          first \in Datetimes, last \in Datetimes :
          /\ DtLE(a, b)
          /\ DtLE(first, last)
          /\ SameOrLaterMonth(a, first)
          /\ SameOrLaterMonth(last, b)
          /\ p_rows' = <<first, last>>
          /\ EnsureEnter(path, Range(a, b))
    /\ UNCHANGED <<partitions, p_result>>
    /\ UNCHANGED not_part

\* admin_jobs_generate with write: the rows are built and inserted,
\* routes/test_ui.py 171-198.
AdminPathStart ==
    /\ p_pc = "idle"
    /\ \E first \in Datetimes, last \in Datetimes :
          /\ DtLE(first, last)
          /\ p_rows' = <<first, last>>
    /\ p_path' = AdminPath
    /\ p_pc' = "write"
    /\ UNCHANGED <<partitions, p_args, p_cursor, p_result>>
    /\ UNCHANGED not_part

\* A row of the partitioned table (forecast_db.py 27, PARTITION BY RANGE
\* (ts)) is stored when a partition holds its timestamp.
HasPartition(ts) ==
    \E q \in partitions : DtLE(q.frm, ts) /\ DtLess(ts, q.to)

\* The INSERT of the rows: bulk_upsert_points, or the endpoint's own
\* statement.
PathWrite ==
    /\ p_pc = "write"
    /\ p_result' =
          IF \A i \in DOMAIN p_rows : HasPartition(p_rows[i])
          THEN "written" ELSE "raised"
    /\ p_pc' = "p_return"
    /\ UNCHANGED <<partitions, p_path, p_args, p_cursor, p_rows>>
    /\ UNCHANGED not_part

PathReturn ==
    /\ p_pc = "p_return"
    /\ p_pc' = "idle"
    /\ p_path' = NoneStr
    /\ p_args' = NoneDict
    /\ p_cursor' = NoneDict
    /\ p_rows' = << >>
    /\ p_result' = NoneStr
    /\ UNCHANGED partitions
    /\ UNCHANGED not_part

PartitionsNext ==
    \/ EnsureCall
    \/ EnsureStep
    \/ EnsureExit
    \/ EnsureReturn

\* The call runs to its end: the loop is the only thing its thread does.
SpecPartitions ==
    /\ Init
    /\ [][PartitionsNext]_vars
    /\ WF_vars(EnsureStep)
    /\ WF_vars(EnsureExit)

WritesNext ==
    \/ RowRangePathStart
    \/ WindowPathStart
    \/ AdminPathStart
    \/ EnsureStep
    \/ EnsureExit
    \/ PathWrite
    \/ PathReturn

SpecWrites == Init /\ [][WritesNext]_vars

\* ------------------------------------------------------------ Claim C22

\* The first instants of the months of the model's window, and of the
\* month that follows it.
MonthStarts == {ReplaceFirstInstant(d) : d \in Datetimes}

\* The month that starts at m holds an instant of [a, b].
MonthMeets(m, a, b) == DtLE(m, b) /\ DtLess(a, MonthBounds(m)[2])

\* The first instant of the month after the one that starts at m, by the
\* calendar.
NextMonthStart(m) ==
    IF m.month = 12 THEN [year |-> m.year + 1, month |-> 1, tick |-> 0]
    ELSE [year |-> m.year, month |-> m.month + 1, tick |-> 0]

MonthPartition(m) ==
    [name |-> <<"pv_forecast_points", m.year, m.month \div 10, m.month % 10>>,
     frm |-> m, to |-> NextMonthStart(m)]

PartitionsWellFormed ==
    /\ \A q \in partitions : q.frm.tick = 0 /\ q = MonthPartition(q.frm)
    /\ \A q \in partitions, r \in partitions :
          q # r => /\ DtLE(q.to, r.frm) \/ DtLE(r.to, q.frm)
                   /\ q.name # r.name

RangeCovered ==
    p_pc = "done" =>
        \A m \in MonthStarts :
            MonthMeets(m, p_args.start_ts, p_args.end_ts) =>
                /\ MonthPartition(m) \in partitions
                /\ DtLess(NextMonthStart(m), p_args.end_ts)
                   \/ NextMonthStart(m) = p_args.end_ts
                      => \E r \in partitions : r.frm = MonthPartition(m).to

RangeHasPartitions ==
    \A m \in MonthStarts :
        MonthMeets(m, p_args.start_ts, p_args.end_ts) =>
            \E q \in partitions : q.frm = m

\* C22: a call of ensure_month_partitions with start <= end ends; when it
\* has ended, every month that holds an instant of [start, end] has its
\* partition [first instant, first instant of the next month), December's
\* ending at January of the next year, each followed by the next month's;
\* partitions never overlap and are named from year and two-digit month;
\* no pass of the loop changes or removes a partition, and a call whose
\* months all have their partitions creates none.
C22_MonthPartitions ==
    /\ [](PartitionsWellFormed /\ RangeCovered)
    /\ [][/\ partitions \subseteq partitions'
          /\ (p_pc = "loop" /\ RangeHasPartitions) => partitions' = partitions]_vars
    /\ (p_pc = "loop") ~> (p_pc = "done")

\* C22 witness: a second call over December's last instants and
\* January's first has ended, both partitions there, December's ending
\* where January's begins, and a third month's partition untouched.
C22_Witness ==
    /\ p_pc = "done"
    /\ p_args = Range(Datetime(FirstYear, 12, 1), Datetime(FirstYear + 1, 1, 0))
    /\ \E q \in partitions, r \in partitions :
          /\ q.frm = Datetime(FirstYear, 12, 0)
          /\ q.to = Datetime(FirstYear + 1, 1, 0)
          /\ r.frm = q.to
          /\ r.name = <<"pv_forecast_points", FirstYear + 1, 0, 1>>
    /\ Cardinality(partitions) = 3

\* ------------------------------------------------------------ Claim C26

\* The months of the range passed hold the timestamp ts.
RangeCoversRow(range, ts) ==
    /\ DtLE(ReplaceFirstInstant(range.start_ts), ts)
    /\ DtLess(ts, MonthBounds(range.end_ts)[2])

\* C26: when a path is about to write its rows, it has called
\* ensure_month_partitions with a range whose months hold every row's
\* timestamp.
C26_PartitionsEnsuredBeforeWrite ==
    p_pc = "write" =>
        /\ ~IsNone(p_args)
        /\ \A i \in DOMAIN p_rows : RangeCoversRow(p_args, p_rows[i])

\* The same for the paths other than the admin endpoint.
C26_PipelineAndRunPaths ==
    (p_pc = "write" /\ p_path # AdminPath) =>
        /\ ~IsNone(p_args)
        /\ \A i \in DOMAIN p_rows : RangeCoversRow(p_args, p_rows[i])
        /\ \A i \in DOMAIN p_rows : HasPartition(p_rows[i])

\* ------------------------------------------------------------ Claim C30

\* What a step of start_history_job may do to the jobs of the registry.
PipelineJobStep(old, new) ==
    /\ new.state # old.state =>
          old.state = "running" /\ new.state \in {"done", "failed"}
    /\ new.processed_days >= old.processed_days
    /\ new.total_days = old.total_days
    /\ new.state = "failed" /\ old.state # "failed" => cache' = cache

\* The one write of a call: after the last day, asked for, all the rows.
SingleWrite ==
    cache' # cache =>
        /\ ppc = "days"
        /\ ppc' = "return"
        /\ pjob.write
        /\ pjob.idx = JOBS[pjob.job_id].total_days
        /\ JOBS[pjob.job_id].processed_days = JOBS[pjob.job_id].total_days
        /\ Len(pjob.rows) = Len(pjob.accepted) * JOBS[pjob.job_id].total_days
        /\ cache' = cache \cup {pjob.rows[i] : i \in DOMAIN pjob.rows}
        /\ JOBS'[pjob.job_id].state = "done"
        /\ JOBS'[pjob.job_id].written_points = Len(pjob.rows)

PipelineJobConsistent(job) ==
    /\ job.state \in {"running", "done", "failed"}
    /\ job.processed_days <= job.total_days
    /\ job.state = "done" => job.processed_days = job.total_days
    /\ job.state = "failed" => job.written_points = 0
    /\ job.state = "running" => job.written_points = 0

C30_WitnessDone ==
    /\ ppc = "return"
    /\ ~pjob.write
    /\ JOBS[pjob.job_id].state = "done"
    /\ JOBS[pjob.job_id].processed_days = 2

\* ============================================================ Part 8
\* jobs/generate_forecasts.py: run_future (75-93) and run_history
\* (103-127); database.py: get_tag_specification (19-29), get_all_topics
\* (32-39), get_all_topics_or_raise (42-58); app.py: get_topics (251-258);
\* forecast_db.py: delete_future (62-64).

\* `if len(rows) >= 5000`, lines 88 and 122.
FlushThreshold == 5000

\* (topic, dt, float(power)), line 71.
RunRowWidth == 3

\* What tag_specification may hold: topic "A" with a user object id and
\* all module data, topic "U" without either.
StoreContents == {<< >>, <<"U">>, <<"A">>, <<"A", "U">>}

StoredSpec(topic) ==
    [sm_user_object_id |-> IF topic = "A" THEN Just(1) ELSE Nothing,
     complete |-> topic = "A"]

\* database.get_tag_specification, lines 19-29: the row, None when there
\* is none, and None when the read raised.
GetTagSpecification(store, topic, up) ==
    IF ~up THEN NoneDict
    ELSE IF topic \in SeqRange(store) THEN StoredSpec(topic)
    ELSE NoneDict

\* database.get_all_topics, lines 32-39: the tags, and [] when the read
\* raised.
GetAllTopics(store, up) == IF up THEN store ELSE << >>

\* database.get_all_topics_or_raise, lines 42-58.
GetAllTopicsOrRaise(store, up) ==
    IF up THEN [raised |-> NoneStr, topics |-> store]
    ELSE [raised |-> "DatabaseReadError", topics |-> << >>]

\* app.get_topics, lines 251-258.
GetTopics(store, up) ==
    LET r == GetAllTopicsOrRaise(store, up) IN
    IF r.raised = "DatabaseReadError"
    THEN [status |-> 503, topics |-> << >>]
    ELSE [status |-> 200, topics |-> r.topics]

Read(path, up, value) == [path |-> path, failed |-> ~up, value |-> value]
NoRead == [path |-> NoneStr, failed |-> FALSE, value |-> NoneDict]

\* `if not mlen or not mwid or not panels or not comm: return []` and
\* `if not spec: return []`, _build_rows_for_topic lines 20-22 and 38-39.
BuildsNothing(spec) == IsNone(spec) \/ ~spec.complete

\* How many records a day of the archive may have.
DayRecordCounts == {0, 1, FlushThreshold \div 2, FlushThreshold}

\* A DELETE that keeps the rows at the cutoff itself.
DeleteAfter(tbl, start_ts) == {r \in tbl : r.ts <= start_ts}

\* delete_future, lines 62-64: DELETE ... WHERE ts >= :start_ts.
DeleteFuture(tbl, start_ts) == {r \in tbl : ~(r.ts >= start_ts)}

BufSize == r_buf.hi - r_buf.lo

\* Whether bulk_upsert_points(rows) raises for n rows of the run: its
\* INSERT names four columns (forecast_db.py 72-73).
FlushRaises(n) == n > 0 /\ RunRowWidth # Len(Columns)

\* The rows stored before the run: an earlier bulk_upsert_points of a row
\* with its source.
EarlierWrite ==
    /\ r_pc = "idle"
    /\ \E t \in SeqRange(CachedTopics), ts \in Timestamps :
          table' = ApplyStatement(table, <<<<t, ts, 1, "archive_db">>>>)
    /\ UNCHANGED runs
    /\ UNCHANGED not_runs

\* run_future lines 76-79 and run_history 104-107: now, run_migrations,
\* ensure_month_partitions (Part 7).
RunStart ==
    /\ r_pc = "idle"
    /\ \E run \in {"run_future", "run_history"}, now \in Timestamps,
          store \in StoreContents :
          /\ r_run' = run
          /\ r_now' = now
          /\ r_store' = store
          /\ r_pc' = IF run = "run_future" THEN "delete" ELSE "topics"
    /\ r_read' = NoRead
    /\ UNCHANGED <<r_topics, r_day, r_buf, r_passed, r_stored, r_deleted, r_error>>
    /\ UNCHANGED table
    /\ UNCHANGED not_runs

\* run_future line 80: delete_future(now).
RunFutureDelete ==
    /\ r_pc = "delete"
    /\ table' = DeleteFuture(table, r_now)
    /\ r_deleted' = Cardinality(table) - Cardinality(DeleteFuture(table, r_now))
    /\ r_pc' = "topics"
    /\ UNCHANGED <<r_run, r_now, r_store, r_topics, r_day, r_buf, r_passed,
                   r_stored, r_error, r_read>>
    /\ UNCHANGED not_runs

\* Lines 82-83 and 109-110: rows = [], for topic in get_all_topics().
RunGetAllTopics ==
    /\ r_pc = "topics"
    /\ \E up \in BOOLEAN :
          /\ r_topics' = GetAllTopics(r_store, up)
          /\ r_read' = Read("get_all_topics", up, GetAllTopics(r_store, up))
    /\ r_pc' = "topic"
    /\ UNCHANGED <<r_run, r_now, r_store, r_day, r_buf, r_passed, r_stored,
                   r_deleted, r_error>>
    /\ UNCHANGED table
    /\ UNCHANGED not_runs

\* The head of the loop over topics; in run_history lines 111-116, which
\* skip a topic without a specification or without a user object id.
RunTopic ==
    /\ r_pc = "topic"
    /\ IF r_topics = << >>
       THEN /\ r_pc' = "final"
            /\ r_read' = NoRead
            /\ UNCHANGED r_topics
       ELSE IF r_run = "run_future"
       THEN /\ r_pc' = "day"
            /\ r_read' = NoRead
            /\ UNCHANGED r_topics
       ELSE \E up \in BOOLEAN :
               LET spec == GetTagSpecification(r_store, Head(r_topics), up) IN
               /\ r_read' = Read("get_tag_specification", up, spec)
               /\ IF IsNone(spec) \/ spec.sm_user_object_id = Nothing
                  THEN r_topics' = Tail(r_topics) /\ UNCHANGED r_pc
                  ELSE r_pc' = "day" /\ UNCHANGED r_topics
    /\ r_day' = 0
    /\ UNCHANGED <<r_run, r_now, r_store, r_buf, r_passed, r_stored,
                   r_deleted, r_error>>
    /\ UNCHANGED table
    /\ UNCHANGED not_runs

\* range(days + 1) is exhausted: the next topic.
RunDaysDone ==
    /\ r_pc = "day"
    /\ r_day > MaxRunDays
    /\ r_topics' = Tail(r_topics)
    /\ r_pc' = "topic"
    /\ r_read' = NoRead
    /\ UNCHANGED <<r_run, r_now, r_store, r_day, r_buf, r_passed, r_stored,
                   r_deleted, r_error>>
    /\ UNCHANGED table
    /\ UNCHANGED not_runs

\* rows.extend(built) and the test of lines 88 / 122.
Extended(n) ==
    /\ r_buf' = [r_buf EXCEPT !.hi = @ + n]
    /\ r_pc' = IF BufSize + n >= FlushThreshold THEN "flush" ELSE "day"
    /\ r_day' = r_day + 1
    /\ r_error' = r_error

RunRaised(msg) ==
    /\ r_error' = msg
    /\ r_pc' = "ended"
    /\ UNCHANGED <<r_buf, r_day>>

\* run_future lines 84-87, one topic-day: get_forecast_by_coords gives its
\* dict or None (weather_api.py 49-62); _build_rows_for_topic returns []
\* for a topic without a complete specification and otherwise iterates
\* what it was given: the keys of the dict, or None.
FutureTopicDay ==
    /\ r_pc = "day"
    /\ r_run = "run_future"
    /\ r_day <= MaxRunDays
    /\ \E records \in {ForecastDict, NoneOutcome}, up \in BOOLEAN :
          LET spec == GetTagSpecification(r_store, Head(r_topics), up) IN
          /\ r_read' = Read("get_tag_specification", up, spec)
          /\ IF BuildsNothing(spec) THEN Extended(0)
             ELSE IF records.kind = "forecast" THEN RunRaised(AttributeErrorMsg)
             ELSE RunRaised("'NoneType' object is not iterable")
    /\ UNCHANGED <<r_run, r_now, r_store, r_topics, r_passed, r_stored, r_deleted>>
    /\ UNCHANGED table
    /\ UNCHANGED not_runs

\* run_history lines 118-121, one topic-day: extract_weather_from_db gives
\* a list of records or raises; _build_rows_for_topic builds a row for
\* each record, or nothing when its own read of the specification gives
\* none.
HistoryTopicDay ==
    /\ r_pc = "day"
    /\ r_run = "run_history"
    /\ r_day <= MaxRunDays
    /\ \E up \in BOOLEAN :
          LET spec == GetTagSpecification(r_store, Head(r_topics), up) IN
          /\ r_read' = Read("get_tag_specification", up, spec)
          /\ \/ \E n \in DayRecordCounts :
                   Extended(IF BuildsNothing(spec) THEN 0 ELSE n)
             \/ RunRaised("archive failure")
    /\ UNCHANGED <<r_run, r_now, r_store, r_topics, r_passed, r_stored, r_deleted>>
    /\ UNCHANGED table
    /\ UNCHANGED not_runs

\* Lines 88-90 and 122-124: bulk_upsert_points(rows); rows.clear().
RunFlush ==
    /\ r_pc = "flush"
    /\ r_passed' = Append(r_passed, r_buf)
    /\ IF FlushRaises(BufSize)
       THEN /\ r_error' = "INSERT has more target columns than expressions"
            /\ r_pc' = "ended"
            /\ UNCHANGED <<r_buf, r_stored>>
       ELSE /\ r_stored' = r_stored + BufSize
            /\ r_buf' = [r_buf EXCEPT !.lo = r_buf.hi]
            /\ r_pc' = "day"
            /\ UNCHANGED r_error
    /\ r_read' = NoRead
    /\ UNCHANGED <<r_run, r_now, r_store, r_topics, r_day, r_deleted>>
    /\ UNCHANGED table
    /\ UNCHANGED not_runs

\* Lines 92-93 and 126-127: if rows: bulk_upsert_points(rows).
RunFinalFlush ==
    /\ r_pc = "final"
    /\ IF BufSize = 0
       THEN UNCHANGED <<r_passed, r_stored, r_error>>
       ELSE /\ r_passed' = Append(r_passed, r_buf)
            /\ IF FlushRaises(BufSize)
               THEN /\ r_error' = "INSERT has more target columns than expressions"
                    /\ UNCHANGED r_stored
               ELSE /\ r_stored' = r_stored + BufSize
                    /\ UNCHANGED r_error
    /\ r_pc' = "ended"
    /\ UNCHANGED <<r_run, r_now, r_store, r_topics, r_day, r_buf, r_deleted, r_read>>
    /\ UNCHANGED table
    /\ UNCHANGED not_runs

\* The run has returned or raised; its locals are gone.
RunReturn ==
    /\ r_pc = "ended"
    /\ r_pc' = "idle"
    /\ r_run' = NoneStr
    /\ r_now' = None
    /\ r_store' = << >>
    /\ r_topics' = << >>
    /\ r_day' = 0
    /\ r_buf' = [lo |-> 0, hi |-> 0]
    /\ r_passed' = << >>
    /\ r_stored' = 0
    /\ r_deleted' = 0
    /\ r_error' = NoneStr
    /\ r_read' = NoRead
    /\ UNCHANGED table
    /\ UNCHANGED not_runs

\* GET /topics, app.py 251-258, while no run is under way.
GetTopicsEndpoint ==
    /\ r_pc = "idle"
    /\ \E store \in StoreContents, up \in BOOLEAN :
          r_read' = Read("get_topics", up, GetTopics(store, up))
    /\ UNCHANGED <<r_pc, r_run, r_now, r_store, r_topics, r_day, r_buf,
                   r_passed, r_stored, r_deleted, r_error>>
    /\ UNCHANGED table
    /\ UNCHANGED not_runs

RunsNext ==
    \/ EarlierWrite
    \/ RunStart
    \/ RunFutureDelete
    \/ RunGetAllTopics
    \/ RunTopic
    \/ RunDaysDone
    \/ FutureTopicDay
    \/ HistoryTopicDay
    \/ RunFlush
    \/ RunFinalFlush
    \/ RunReturn
    \/ GetTopicsEndpoint

SpecRuns == Init /\ [][RunsNext]_vars

\* ------------------------------------------------------------ Claim C21

\* delete_future(cutoff) removes the rows with ts >= cutoff and leaves
\* the others as they were.
DeleteFrame ==
    r_pc = "delete" =>
        /\ \A r \in table : r.ts >= r_now => r \notin table'
        /\ \A r \in table : r.ts < r_now => r \in table'
        /\ table' \subseteq table

\* C21: delete_future removes every row with ts >= cutoff and leaves every
\* row with ts < cutoff unchanged; run_future passes no row to
\* bulk_upsert_points before it; and when a run_future has finished, the
\* cache holds no row with ts >= cutoff but those the run stored.
C21_NoStaleFutureRows ==
    /\ [][DeleteFrame]_vars
    /\ []((r_run = "run_future" /\ r_pc = "delete") =>
             r_passed = << >> /\ r_stored = 0)
    /\ []((r_run = "run_future" /\ r_pc = "ended" /\ r_error = NoneStr) =>
             \A r \in table : r.ts < r_now)

\* C21 witness: a run_future over a topic has finished; its delete removed
\* a row, and a row before the cutoff is still there.
C21_Witness ==
    /\ r_run = "run_future"
    /\ r_pc = "ended"
    /\ r_error = NoneStr
    /\ r_store # << >>
    /\ r_deleted > 0
    /\ \E r \in table : r.ts < r_now

\* ------------------------------------------------------------ Claim C23

\* C23: a read of tag_specification that failed gives its caller
\* something no successful read gives: not the empty list of topics, not
\* the None of a missing specification.
C23_FailedReadDistinct ==
    r_read.failed =>
        CASE r_read.path = "get_all_topics" -> r_read.value # << >>
          [] r_read.path = "get_tag_specification" -> ~IsNone(r_read.value)
          [] r_read.path = "get_topics" -> r_read.value.status # 200

\* The topic list of GET /topics alone.
C23_TopicListDistinct ==
    (r_read.failed /\ r_read.path = "get_topics") => r_read.value.status = 503

\* ------------------------------------------------------------ Claim C25

\* The rows passed to bulk_upsert_points are the rows built, each once
\* and in order.
RECURSIVE PassedUpTo(_, _)
PassedUpTo(q, from) ==
    IF q = << >> THEN from
    ELSE IF Head(q).lo = from /\ Head(q).hi > from
         THEN PassedUpTo(Tail(q), Head(q).hi)
         ELSE -1

\* C25: after a topic-day step that leaves 5000 rows or more in the
\* buffer, the next step passes them to bulk_upsert_points, the cache
\* takes them and the buffer is empty; and a run that ends without an
\* error has passed every row it built exactly once and ends with an
\* empty buffer.
C25_FlushAndEmpty ==
    /\ [][r_pc = "flush" =>
             /\ r_passed' = Append(r_passed, r_buf)
             /\ r_stored' = r_stored + BufSize
             /\ r_buf'.lo = r_buf'.hi
             /\ r_error' = NoneStr]_vars
    /\ [](r_pc = "day" => BufSize < FlushThreshold)
    /\ []((r_pc = "ended" /\ r_error = NoneStr) =>
             /\ PassedUpTo(r_passed, 0) = r_buf.hi
             /\ BufSize = 0)

\* What is left of C25 in the code: the buffer is passed on as soon as it
\* reaches the threshold, and a run that ends without an error has built
\* no row.
C25_FlushAttempted ==
    /\ [][r_pc = "flush" => r_passed' = Append(r_passed, r_buf)]_vars
    /\ [](r_pc = "day" => BufSize < FlushThreshold)
    /\ []((r_pc = "ended" /\ r_error = NoneStr) => r_buf.hi = 0)

====
